---------------------------- MODULE Spec2Model ----------------------------
(***************************************************************************)
(* symbol-tools: a model of the aggregated symbol map (common.rs), the     *)
(* diff engine (diff.rs), the loader and the interactive explorer          *)
(* (link.rs) and the byte-range helper (common.rs).                        *)
(*                                                                         *)
(* Each part of the program is one state machine over its own variables;   *)
(* the variables of the other parts stay at their idle value.              *)
(***************************************************************************)
EXTENDS Integers, Sequences, FiniteSets, TLC

(***************************************************************************)
(* Machine integers.  The program computes on u64 (addresses, sizes,       *)
(* offsets) and i64 (signed sizes of the diff).  The model keeps the       *)
(* wrap-around of both, on words of WordBits bits instead of 64.           *)
(***************************************************************************)
WordBits == 4

U64Modulus == 2 ^ WordBits

U64Max == U64Modulus - 1

I64Min == 0 - (U64Modulus \div 2)

I64Max == (U64Modulus \div 2) - 1

\* a + b on u64: the value of a release build (wrapping)
WrapAdd(a, b) == (a + b) % U64Modulus

\* a - b on u64: the value of a release build (wrapping)
WrapSub(a, b) == (a - b + U64Modulus) % U64Modulus

\* `x as i64` for x: u64
AsI64(x) == IF x > I64Max THEN x - U64Modulus ELSE x

\* the sequence s without its i-th element
RemoveAt(s, i) == [j \in 1..(Len(s) - 1) |-> IF j < i THEN s[j] ELSE s[j + 1]]

\* every order in which the elements of the sequence s can be met
RECURSIVE EncounterOrders(_)
EncounterOrders(s) ==
    IF Len(s) = 0 THEN {<<>>}
    ELSE UNION { { <<s[i]>> \o p : p \in EncounterOrders(RemoveAt(s, i)) } : i \in 1..Len(s) }

VARIABLES
    overflow_checks,   \* the build profile: TRUE panics on overflow, FALSE wraps
    \* ---- collect_map (common.rs) ----
    cm_pc,             \* "idle" | "first" | "second" | "done" | "panic"
    cm_symbols,        \* the symbols of the object, in the encounter order of the first run
    cm_permuted,       \* the same symbols in the encounter order of the second run
    filter_outlined,   \* collect_map's option
    cm_pos,            \* how many symbols of the running loop are consumed
    map,               \* the HashMap being built by the running loop
    cm_first,          \* the outcome of the first run: [pc, map]
    \* ---- diff (diff.rs) ----
    df_pc,             \* "idle" | "old" | "new" | "sort" | "print" | "total" | "exit" | "panic"
    df_run,            \* "first": Differ(old, new); "second": Differ(new, old)
    old_map,           \* collect_map of the old object
    new_map,           \* collect_map of the new object
    oneway,            \* Options.oneway
    sort,              \* Options.sort
    df_visited,        \* the names the running loop of for_each has visited
    output,            \* sort mode: the records pushed by the closure
    df_records,        \* every call of the closure f so far: [name, old, new]
    stdout,            \* the rows written
    change_count,      \* the running total
    df_first,          \* the outcome of the first run: [pc, records, stdout, total]
    \* ---- data_range (common.rs) ----
    usize_bits,        \* the target: the width of usize
    rg_pc,             \* "idle" | "call" | "returned"
    data,              \* data: &[u8]
    data_address,      \* data_address: u64
    range_address,     \* range_address: u64
    range_size,        \* size: u64
    rg_result,         \* what data_range returned
    \* ---- link (link.rs) ----
    ld_pc,             \* "idle" | "open" | "mmap" | "iter" | "explorer" | "session" | "failed" | "exited"
    objects,           \* Options.objects: the paths, each with the file behind it
    ld_idx,            \* flat_result: how many paths self.iter has yielded
    subiter,           \* flat_result: self.subiter, <<>> for None, else <<members left>>
    ld_parsed,         \* the parser each dispatched path was handed to
    list,              \* the flattened Vec<ObjectFile>
    ld_error,          \* the error exec returned
    explorer,          \* the Explorer built by Explorer::build
    \* ---- the command loop of explorer() (link.rs) ----
    binary_search_pick, \* the build: which of several equal keys binary_search_by_key finds
    ss_lines,          \* the lines the operator may type
    cache,             \* the Cache of the session
    ss_last,           \* the last line read and what exec did with it
    decompressions,    \* per (obj_idx, section_idx): how often its decompression ran, and succeeded
    dumped,            \* per symbol position: the bytes its first successful dump returned
    search,            \* the search that is fanned out: [mode, line, next, work, lock, out]
    \* ---- the standalone searcher (main.rs) ----
    sc_pc,             \* "idle" | "start" | "scan" | "print" | "total" | "exit" | "failed"
    sc_symbols,        \* object.symbol_map().symbols(): ascending by address
    sc_keywords,       \* Options.keywords
    sc_sort,           \* Options.sort
    sc_pos,            \* how many symbols for_each has visited
    symbolset,         \* sort mode: the BTreeMap, as its entries in key order
    sc_count,          \* the running total
    sc_stdout          \* the rows written

cm_vars == <<cm_pc, cm_symbols, cm_permuted, filter_outlined, cm_pos, map, cm_first>>

df_vars == <<df_pc, df_run, old_map, new_map, oneway, sort, df_visited, output,
             df_records, stdout, change_count, df_first>>

rg_vars == <<rg_pc, data, data_address, range_address, range_size, rg_result>>

sc_vars == <<sc_pc, sc_symbols, sc_keywords, sc_sort, sc_pos, symbolset, sc_count,
             sc_stdout>>

ld_vars == <<ld_pc, objects, ld_idx, subiter, ld_parsed, list, ld_error, explorer>>

ss_vars == <<binary_search_pick, ss_lines, cache, ss_last, decompressions, dumped, search>>

vars == <<overflow_checks, usize_bits, cm_vars, df_vars, rg_vars, sc_vars, ld_vars, ss_vars>>

\* what the actions of one part leave alone
cm_others == <<usize_bits, df_vars, rg_vars, sc_vars, ld_vars, ss_vars>>

df_others == <<usize_bits, cm_vars, rg_vars, sc_vars, ld_vars, ss_vars>>

rg_others == <<overflow_checks, cm_vars, df_vars, sc_vars, ld_vars, ss_vars>>

ld_others == <<overflow_checks, usize_bits, cm_vars, df_vars, rg_vars, sc_vars, ss_vars>>

ss_others == <<overflow_checks, usize_bits, cm_vars, df_vars, rg_vars, sc_vars,
               objects, ld_idx, subiter, ld_parsed, list, ld_error,
               binary_search_pick, ss_lines, search>>

IdleMap ==
    /\ cm_pc = "idle" /\ cm_symbols = <<>> /\ cm_permuted = <<>> /\ filter_outlined = FALSE
    /\ cm_pos = 0 /\ map = <<>> /\ cm_first = <<>>

IdleSearcher ==
    /\ sc_pc = "idle" /\ sc_symbols = <<>> /\ sc_keywords = <<>> /\ sc_sort = FALSE
    /\ sc_pos = 0 /\ symbolset = <<>> /\ sc_count = 0 /\ sc_stdout = <<>>

IdleRange ==
    /\ rg_pc = "idle" /\ data = <<>> /\ data_address = 0 /\ range_address = 0
    /\ range_size = 0 /\ rg_result = <<>>

IdleLink ==
    /\ ld_pc = "idle" /\ objects = <<>> /\ ld_idx = 0 /\ subiter = <<>> /\ ld_parsed = <<>>
    /\ list = <<>> /\ ld_error = <<>> /\ explorer = <<>>

\* Cache::default()
EmptyCache == [symmap_list |-> <<>>, decompress_sections |-> <<>>, reloc_list |-> <<>>]

\* no search is running
IdleSearch == [mode |-> "idle"]

IdleSession ==
    /\ binary_search_pick = "lowest" /\ ss_lines = {} /\ cache = EmptyCache
    /\ ss_last = <<>> /\ decompressions = <<>> /\ dumped = <<>>
    /\ search = IdleSearch

IdleDiff ==
    /\ df_pc = "idle" /\ df_run = "first" /\ old_map = <<>> /\ new_map = <<>>
    /\ oneway = FALSE /\ sort = FALSE /\ df_visited = {} /\ output = <<>>
    /\ df_records = <<>> /\ stdout = <<>> /\ change_count = 0 /\ df_first = <<>>

(***************************************************************************)
(* collect_map                                                  common.rs  *)
(***************************************************************************)
MaxSymbols == 3

OutlinedName == "OUTLINED_FUNCTION_"

NameError == "<name error>"

\* rustc_demangle::demangle, formatted with {:#} (no hash suffix), on the
\* names of the model: a legacy-mangled Rust name loses its wrapping and
\* its hash, every other name is printed as it is.
Demangle(name) ==
    CASE name = "_ZN3foo17h0123456789abcdefE" -> "foo"
      [] name = "_ZN3bar17hfedcba9876543210E" -> "bar"
      [] OTHER -> name

\* rustc_demangle::demangle, formatted with {} (the hash suffix is kept), on
\* the names of the model.
DemangleDisplay(name) ==
    CASE name = "_ZN3foo17h0123456789abcdefE" -> "foo::h0123456789abcdef"
      [] name = "_ZN3bar17hfedcba9876543210E" -> "bar::hfedcba9876543210"
      [] OTHER -> name

\* name.as_bytes().starts_with_str("OUTLINED_FUNCTION_")
StartsWithOutlined(name) ==
    name \in {"OUTLINED_FUNCTION_", "OUTLINED_FUNCTION_0", "OUTLINED_FUNCTION_1"}

\* The symbols an object may hold: kind, raw name, address, size.
SymbolUniverse ==
    { [kind |-> "Text", name |-> "foo", address |-> 1, size |-> 1],
      [kind |-> "Text", name |-> "_ZN3foo17h0123456789abcdefE", address |-> 2, size |-> 2],
      [kind |-> "Text", name |-> "foo", address |-> 1, size |-> U64Max],
      [kind |-> "Data", name |-> "foo", address |-> 3, size |-> 1],
      [kind |-> "Text", name |-> "", address |-> 0, size |-> 1],
      [kind |-> "Text", name |-> NameError, address |-> 0, size |-> 1],
      [kind |-> "Text", name |-> "OUTLINED_FUNCTION_0", address |-> 4, size |-> 1],
      [kind |-> "Text", name |-> "OUTLINED_FUNCTION_1", address |-> 5, size |-> 2] }

NoKey == "<skipped>"

\* a plausible slip: the option is not looked at
SymbolKey_NeverFolded(symbol, outlined) ==
    IF symbol.kind # "Text" THEN NoKey
    ELSE IF symbol.name = NameError \/ symbol.name = "" THEN NoKey
    ELSE Demangle(symbol.name)

\* The key under which collect_map files a symbol, NoKey for a symbol it
\* skips: not text, a name that cannot be read, an empty name.
SymbolKey(symbol, outlined) ==
    IF symbol.kind # "Text" THEN NoKey
    ELSE IF symbol.name = NameError \/ symbol.name = "" THEN NoKey
    ELSE IF outlined /\ StartsWithOutlined(Demangle(symbol.name)) THEN OutlinedName
    ELSE Demangle(symbol.name)

\* A finite map m extended or overwritten at key k.
Put(m, k, v) == [x \in DOMAIN m \cup {k} |-> IF x = k THEN v ELSE m[x]]

EmptyMap == [x \in {} |-> <<0, 0>>]

\* entry.1 += size overflows
EntryOverflows(m, name, size) == name \in DOMAIN m /\ m[name][2] + size > U64Max

\* a plausible slip: the colliding entry is overwritten, not summed
MapEntry_Overwrite(m, name, addr, size) == Put(m, name, <<addr, size>>)

\* map.entry(name).and_modify(|entry| entry.1 += size).or_insert_with(|| (addr, size))
MapEntry(m, name, addr, size) ==
    IF name \in DOMAIN m
    THEN Put(m, name, <<m[name][1], WrapAdd(m[name][2], size)>>)
    ELSE Put(m, name, <<addr, size>>)

\* the order the running loop reads
cm_input == IF cm_pc = "first" THEN cm_symbols ELSE cm_permuted

InitMap ==
    /\ overflow_checks \in BOOLEAN
    /\ filter_outlined \in BOOLEAN
    /\ \E n \in 0..MaxSymbols : cm_symbols \in [1..n -> SymbolUniverse]
    /\ cm_permuted \in EncounterOrders(cm_symbols)
    /\ cm_pc = "first"
    /\ cm_pos = 0
    /\ map = EmptyMap
    /\ cm_first = [pc |-> "none", map |-> EmptyMap]
    /\ usize_bits = WordBits
    /\ IdleDiff /\ IdleRange /\ IdleLink /\ IdleSession /\ IdleSearcher

\* One turn of `for symbol in symbols.filter(..)`: a skipped symbol.
CollectSkip ==
    /\ cm_pc \in {"first", "second"}
    /\ cm_pos < Len(cm_input)
    /\ SymbolKey(cm_input[cm_pos + 1], filter_outlined) = NoKey
    /\ cm_pos' = cm_pos + 1
    /\ UNCHANGED <<overflow_checks, cm_pc, cm_symbols, cm_permuted, filter_outlined, map, cm_first, cm_others>>

\* One turn of the loop: the symbol is filed under its key.
CollectInsert ==
    /\ cm_pc \in {"first", "second"}
    /\ cm_pos < Len(cm_input)
    /\ LET symbol == cm_input[cm_pos + 1]
           name == SymbolKey(symbol, filter_outlined)
       IN  /\ name # NoKey
           /\ ~(overflow_checks /\ EntryOverflows(map, name, symbol.size))
           /\ map' = MapEntry(map, name, symbol.address, symbol.size)
    /\ cm_pos' = cm_pos + 1
    /\ UNCHANGED <<overflow_checks, cm_pc, cm_symbols, cm_permuted, filter_outlined, cm_first, cm_others>>

\* One turn of the loop in a build with overflow checks: entry.1 += size panics.
CollectPanic ==
    /\ cm_pc \in {"first", "second"}
    /\ cm_pos < Len(cm_input)
    /\ LET symbol == cm_input[cm_pos + 1]
           name == SymbolKey(symbol, filter_outlined)
       IN  /\ name # NoKey
           /\ overflow_checks /\ EntryOverflows(map, name, symbol.size)
    /\ IF cm_pc = "first"
       THEN /\ cm_first' = [pc |-> "panic", map |-> EmptyMap]
            /\ cm_pc' = "second"
            /\ cm_pos' = 0
            /\ map' = EmptyMap
       ELSE /\ cm_pc' = "panic"
            /\ UNCHANGED <<cm_first, cm_pos, map>>
    /\ UNCHANGED <<overflow_checks, cm_symbols, cm_permuted, filter_outlined, cm_others>>

\* The loop is over: collect_map returns the map.  The second run starts
\* after the first one.
CollectReturn ==
    /\ cm_pc \in {"first", "second"}
    /\ cm_pos = Len(cm_input)
    /\ IF cm_pc = "first"
       THEN /\ cm_first' = [pc |-> "done", map |-> map]
            /\ cm_pc' = "second"
            /\ cm_pos' = 0
            /\ map' = EmptyMap
       ELSE /\ cm_pc' = "done"
            /\ UNCHANGED <<cm_first, cm_pos, map>>
    /\ UNCHANGED <<overflow_checks, cm_symbols, cm_permuted, filter_outlined, cm_others>>

NextMap == CollectSkip \/ CollectInsert \/ CollectPanic \/ CollectReturn

SpecMap == InitMap /\ [][NextMap]_vars

(***************************************************************************)
(* collect_map: the claims                                                 *)
(***************************************************************************)
\* the address of the first symbol of the order `symbols` filed under key
FirstAddress(symbols, key) ==
    LET i == CHOOSE i \in 1..Len(symbols) :
                 /\ SymbolKey(symbols[i], filter_outlined) = key
                 /\ \A j \in 1..(i - 1) : SymbolKey(symbols[j], filter_outlined) # key
    IN  symbols[i].address

\* the symbols of the order `symbols` filed under key
Filed(symbols, key) == { i \in 1..Len(symbols) : SymbolKey(symbols[i], filter_outlined) = key }

\* C1 (as stated): collect_map is order-independent: fed the same symbols
\* in two orders, it returns maps with the same keys and, for every key,
\* the same (address, total-size) pair.
C1_OrderIndependent ==
    (cm_pc = "done" /\ cm_first.pc = "done") => map = cm_first.map

\* C1 (amended): fed the same symbols in two orders, collect_map returns for
\* both or panics (overflow checks) for both; the two maps have the same
\* keys and, for every key, the same total size; the address of a key is
\* the address of the first symbol filed under it in the order that was fed.
C1_OrderIndependentSizes ==
    /\ cm_pc \in {"done", "panic"} => (cm_pc = "panic") = (cm_first.pc = "panic")
    /\ (cm_pc = "done" /\ cm_first.pc = "done") =>
          /\ DOMAIN map = DOMAIN cm_first.map
          /\ \A key \in DOMAIN map :
                /\ map[key][2] = cm_first.map[key][2]
                /\ map[key][1] = FirstAddress(cm_permuted, key)
                /\ cm_first.map[key][1] = FirstAddress(cm_symbols, key)

\* C1 witness: both runs returned, the orders differ, and a key that
\* several symbols are filed under got two different addresses.
C1_Witness ==
    /\ cm_pc = "done" /\ cm_first.pc = "done"
    /\ cm_permuted # cm_symbols
    /\ \E key \in DOMAIN map :
          /\ Cardinality(Filed(cm_symbols, key)) >= 2
          /\ map[key][1] # cm_first.map[key][1]
          /\ map[key][2] = cm_first.map[key][2]

(***************************************************************************)
(* The diff engine                                                diff.rs  *)
(***************************************************************************)
\* the names of the maps that are compared
DiffNames == {"foo", "bar"}

\* the (address, size) pairs an aggregated map may hold
DiffEntries == { <<0, 0>>, <<1, 1>>, <<1, 2>>, <<2, U64Modulus \div 2>> }

\* every map from some of the names to entries
DiffMaps == UNION { [names -> DiffEntries] : names \in SUBSET DiffNames }

\* a - b on i64 overflows
SubOverflows(a, b) == a - b < I64Min \/ a - b > I64Max

\* a + b on i64 overflows
AddOverflows(a, b) == a + b < I64Min \/ a + b > I64Max

\* the i64 a wrapped value stands for
WrapI64(x) == ((x - I64Min) % U64Modulus) + I64Min

\* self.0 and self.1 of the Differ of the running exec
DifferOld == IF df_run = "first" THEN old_map ELSE new_map

DifferNew == IF df_run = "first" THEN new_map ELSE old_map

\* a plausible slip: names of both maps are reported even when the sizes agree
OldSideCall_NoSizeTest(name) ==
    LET old == DifferOld[name]
    IN  IF name \in DOMAIN DifferNew
        THEN <<[name |-> name, old |-> <<old[1], AsI64(old[2])>>,
                new |-> <<DifferNew[name][1], AsI64(DifferNew[name][2])>>]>>
        ELSE <<[name |-> name, old |-> <<old[1], AsI64(old[2])>>, new |-> <<0, 0>>]>>

\* the arguments for_each passes to f for a name of self.0, <<>> when it
\* does not call f
OldSideCall(name) ==
    LET old == DifferOld[name]
    IN  IF name \in DOMAIN DifferNew
        THEN IF old[2] # DifferNew[name][2]
             THEN <<[name |-> name, old |-> <<old[1], AsI64(old[2])>>,
                     new |-> <<DifferNew[name][1], AsI64(DifferNew[name][2])>>]>>
             ELSE <<>>
        ELSE <<[name |-> name, old |-> <<old[1], AsI64(old[2])>>, new |-> <<0, 0>>]>>

\* a - b on i64 in the running build: the wrapped value of a release build
\* (a build with overflow checks panics before it is used)
SubI64(a, b) == WrapI64(a - b)

AddI64(a, b) == WrapI64(a + b)

\* the row exec writes for a record
Row(record) ==
    [name |-> record.name, old_addr |-> record.old[1], new_addr |-> record.new[1],
     old_size |-> record.old[2], new_size |-> record.new[2],
     diff_size |-> SubI64(record.new[2], record.old[2])]

\* the closure of exec panics on a record (overflow checks)
RowPanics(record, count) ==
    /\ overflow_checks
    /\ \/ SubOverflows(record.new[2], record.old[2])
       \/ AddOverflows(count, record.new[2] - record.old[2])

InitDiff ==
    /\ overflow_checks \in BOOLEAN
    /\ old_map \in DiffMaps
    /\ new_map \in DiffMaps
    /\ oneway \in BOOLEAN
    /\ sort \in BOOLEAN
    /\ df_pc = "old"
    /\ df_run = "first"
    /\ df_visited = {}
    /\ output = <<>>
    /\ df_records = <<>>
    /\ stdout = <<>>
    /\ change_count = 0
    /\ df_first = [pc |-> "none", records |-> <<>>, stdout |-> <<>>, total |-> 0]
    /\ usize_bits = WordBits
    /\ IdleMap /\ IdleRange /\ IdleLink /\ IdleSession /\ IdleSearcher

\* f, the closure exec hands to for_each, called on the records `calls`
\* (none or one): sort mode pushes the record, the other mode writes its
\* row and adds its delta to the total, or panics.
CallF(calls, next_pc) ==
    IF calls = <<>>
    THEN /\ df_pc' = next_pc
         /\ UNCHANGED <<output, df_records, stdout, change_count>>
    ELSE /\ df_records' = df_records \o calls
         /\ IF sort
            THEN /\ output' = output \o calls
                 /\ df_pc' = next_pc
                 /\ UNCHANGED <<stdout, change_count>>
            ELSE IF RowPanics(calls[1], change_count)
            THEN /\ df_pc' = "panic"
                 /\ UNCHANGED <<output, stdout, change_count>>
            ELSE /\ stdout' = Append(stdout, Row(calls[1]))
                 /\ change_count' = AddI64(change_count, Row(calls[1]).diff_size)
                 /\ df_pc' = next_pc
                 /\ UNCHANGED output

\* for_each, first loop: one name of self.0, in the order the HashMap yields
DiffVisitOld ==
    /\ df_pc = "old"
    /\ \E name \in DOMAIN DifferOld \ df_visited :
          /\ df_visited' = df_visited \cup {name}
          /\ CallF(OldSideCall(name), "old")
    /\ UNCHANGED <<overflow_checks, df_run, old_map, new_map, oneway, sort, df_first, df_others>>

\* for_each, between the loops: `if self.2`
DiffOldDone ==
    /\ df_pc = "old"
    /\ df_visited = DOMAIN DifferOld
    /\ df_visited' = {}
    /\ df_pc' = IF ~oneway THEN "new" ELSE IF sort THEN "sort" ELSE "total"
    /\ UNCHANGED <<overflow_checks, df_run, old_map, new_map, oneway, sort, output,
                   df_records, stdout, change_count, df_first, df_others>>

\* a plausible slip: the second loop reports nothing
NewSideCall_Dropped(name) == <<>>

\* the arguments for_each passes to f for a name of self.1
NewSideCall(name) ==
    IF name \notin DOMAIN DifferOld
    THEN <<[name |-> name, old |-> <<0, 0>>,
            new |-> <<DifferNew[name][1], AsI64(DifferNew[name][2])>>]>>
    ELSE <<>>

\* for_each, second loop: one name of self.1
DiffVisitNew ==
    /\ df_pc = "new"
    /\ \E name \in DOMAIN DifferNew \ df_visited :
          /\ df_visited' = df_visited \cup {name}
          /\ CallF(NewSideCall(name), "new")
    /\ UNCHANGED <<overflow_checks, df_run, old_map, new_map, oneway, sort, df_first, df_others>>

\* for_each returns Ok
DiffNewDone ==
    /\ df_pc = "new"
    /\ df_visited = DOMAIN DifferNew
    /\ df_visited' = {}
    /\ df_pc' = IF sort THEN "sort" ELSE "total"
    /\ UNCHANGED <<overflow_checks, df_run, old_map, new_map, oneway, sort, output,
                   df_records, stdout, change_count, df_first, df_others>>

\* the key of sort_unstable_by_key
SortKey(record) == SubI64(record.new[2], record.old[2])

\* output.sort_unstable_by_key(..): any order of the records that ascends
\* by key (the sort is not stable); the key panics on overflow
DiffSort ==
    /\ df_pc = "sort"
    /\ IF /\ overflow_checks
          /\ Len(output) >= 2
          /\ \E i \in 1..Len(output) : SubOverflows(output[i].new[2], output[i].old[2])
       THEN df_pc' = "panic" /\ UNCHANGED output
       ELSE /\ \E sorted \in EncounterOrders(output) :
                  /\ \A i \in 1..(Len(sorted) - 1) : SortKey(sorted[i]) <= SortKey(sorted[i + 1])
                  /\ output' = sorted
            /\ df_pc' = "print"
    /\ UNCHANGED <<overflow_checks, df_run, old_map, new_map, oneway, sort, df_visited,
                   df_records, stdout, change_count, df_first, df_others>>

\* sort mode: `for (name, ..) in output`, one record
DiffPrintSorted ==
    /\ df_pc = "print"
    /\ output # <<>>
    /\ IF RowPanics(output[1], change_count)
       THEN df_pc' = "panic" /\ UNCHANGED <<output, stdout, change_count>>
       ELSE /\ stdout' = Append(stdout, Row(output[1]))
            /\ change_count' = AddI64(change_count, Row(output[1]).diff_size)
            /\ output' = Tail(output)
            /\ df_pc' = "print"
    /\ UNCHANGED <<overflow_checks, df_run, old_map, new_map, oneway, sort, df_visited,
                   df_records, df_first, df_others>>

\* sort mode: the loop over output is over
DiffPrintDone ==
    /\ df_pc = "print"
    /\ output = <<>>
    /\ df_pc' = "total"
    /\ UNCHANGED <<overflow_checks, df_run, old_map, new_map, oneway, sort, df_visited, output,
                   df_records, stdout, change_count, df_first, df_others>>

\* writeln!("total: {}", change_count); exec returns
DiffTotal ==
    /\ df_pc = "total"
    /\ df_pc' = "exit"
    /\ UNCHANGED <<overflow_checks, df_run, old_map, new_map, oneway, sort, df_visited, output,
                   df_records, stdout, change_count, df_first, df_others>>

\* the same two objects are compared the other way round: diff new old
DiffSwapped ==
    /\ df_run = "first"
    /\ df_pc \in {"exit", "panic"}
    /\ df_first' = [pc |-> df_pc, records |-> df_records, stdout |-> stdout, total |-> change_count]
    /\ df_run' = "second"
    /\ df_pc' = "old"
    /\ df_visited' = {}
    /\ output' = <<>>
    /\ df_records' = <<>>
    /\ stdout' = <<>>
    /\ change_count' = 0
    /\ UNCHANGED <<overflow_checks, old_map, new_map, oneway, sort, df_others>>

NextDiff ==
    \/ DiffVisitOld \/ DiffOldDone \/ DiffVisitNew \/ DiffNewDone
    \/ DiffSort \/ DiffPrintSorted \/ DiffPrintDone \/ DiffTotal \/ DiffSwapped

SpecDiff == InitDiff /\ [][NextDiff]_vars

(***************************************************************************)
(* The diff engine: the claims                                             *)
(***************************************************************************)
\* the records of a sequence of calls of f, as a set
RecordSet(calls) == { calls[i] : i \in 1..Len(calls) }

\* a record with its old and new sides swapped
Swapped(record) == [name |-> record.name, old |-> record.new, new |-> record.old]

\* both runs of exec have returned
BothDiffsDone == df_run = "second" /\ df_pc = "exit" /\ df_first.pc = "exit"

\* C5: in two-way mode the records of Differ(old, new), each with its old
\* and new sides swapped (which turns the sign of its delta new - old),
\* are the records of Differ(new, old), one for one.
C5_AntiSymmetric ==
    (BothDiffsDone /\ ~oneway) =>
        /\ { Swapped(r) : r \in RecordSet(df_first.records) } = RecordSet(df_records)
        /\ Len(df_first.records) = Len(df_records)

\* C5 witness: a two-way diff, both ways round, with a changed name, a
\* name only in old and so a name only in new the other way round.
C5_Witness ==
    /\ BothDiffsDone /\ ~oneway
    /\ DOMAIN old_map = DiffNames /\ DOMAIN new_map = {"foo"}
    /\ Len(df_records) = 2
    /\ \E r \in RecordSet(df_records) : r.old = <<0, 0>> /\ r.name = "bar" /\ r.new[2] # 0

\* the record for_each owes a name, <<>> when it owes none
Owed(name) ==
    IF name \in DOMAIN DifferOld /\ name \in DOMAIN DifferNew
    THEN IF DifferOld[name][2] # DifferNew[name][2]
         THEN <<[name |-> name,
                 old |-> <<DifferOld[name][1], AsI64(DifferOld[name][2])>>,
                 new |-> <<DifferNew[name][1], AsI64(DifferNew[name][2])>>]>>
         ELSE <<>>
    ELSE IF name \in DOMAIN DifferOld
    THEN <<[name |-> name,
            old |-> <<DifferOld[name][1], AsI64(DifferOld[name][2])>>, new |-> <<0, 0>>]>>
    ELSE IF name \in DOMAIN DifferNew /\ ~oneway
    THEN <<[name |-> name, old |-> <<0, 0>>,
            new |-> <<DifferNew[name][1], AsI64(DifferNew[name][2])>>]>>
    ELSE <<>>

\* C6: when for_each has returned, f was called at most once per name:
\* with both sides for a name of both maps whose sizes differ, with the
\* new side (0, 0) for a name only in old, with the old side (0, 0) for a
\* name only in new (two-way mode only), and not at all for a name whose
\* size is the same in both maps.  E.g. foo (1, 1) against foo (1, 2)
\* gives one row, delta +1, and the total +1.
C6_OneRecordPerName ==
    /\ df_pc = "exit" =>
          /\ \A i, j \in 1..Len(df_records) :
                df_records[i].name = df_records[j].name => i = j
          /\ \A name \in DiffNames :
                { r \in RecordSet(df_records) : r.name = name } = RecordSet(Owed(name))
    /\ ( /\ df_pc = "exit" /\ df_run = "first"
         /\ old_map = [n \in {"foo"} |-> <<1, 1>>]
         /\ new_map = [n \in {"foo"} |-> <<1, 2>>] ) =>
          /\ stdout = <<[name |-> "foo", old_addr |-> 1, new_addr |-> 1,
                         old_size |-> 1, new_size |-> 2, diff_size |-> 1]>>
          /\ change_count = 1

\* C6 witness: a two-way diff has returned with a record of each kind
\* owed and a name of both maps, of one size, left out.
C6_Witness ==
    /\ df_pc = "exit" /\ df_run = "first" /\ ~oneway
    /\ old_map = [n \in DiffNames |-> <<1, 2>>]
    /\ new_map = [n \in DiffNames |-> IF n = "foo" THEN <<1, 2>> ELSE <<1, 1>>]
    /\ Len(df_records) = 1
    /\ df_records[1].name = "bar"

(***************************************************************************)
(* data_range                                                   common.rs  *)
(***************************************************************************)
MaxData == 3

\* the bytes of the model
Bytes == {0, 1}

\* usize::MAX of the target
UsizeMax == 2 ^ usize_bits - 1

Ok(value) == [ok |-> TRUE, value |-> value]

Err(context) == [ok |-> FALSE, error |-> context]

\* data.get(offset..): None when offset > data.len()
GetFrom(bytes, offset) ==
    IF offset > Len(bytes) THEN Err("None") ELSE Ok(SubSeq(bytes, offset + 1, Len(bytes)))

\* a plausible slip: a size past the end is cut to what is left
GetTo_Truncating(bytes, size) ==
    IF size > Len(bytes) THEN Ok(bytes) ELSE Ok(SubSeq(bytes, 1, size))

\* data.get(..size): None when size > data.len()
GetTo(bytes, size) ==
    IF size > Len(bytes) THEN Err("None") ELSE Ok(SubSeq(bytes, 1, size))

\* data_range(data, data_address, range_address, size)
data_range(bytes, base, address, size) ==
    IF address < base THEN Err("bad address")                    \* checked_sub
    ELSE IF address - base > UsizeMax THEN Err("symbol address cast fail")
    ELSE IF size > UsizeMax THEN Err("symbol size cast fail")
    ELSE LET rest == GetFrom(bytes, address - base)
         IN  IF ~rest.ok THEN Err("section range overflow")
             ELSE IF ~GetTo(rest.value, size).ok THEN Err("section range overflow")
             ELSE GetTo(rest.value, size)

\* the u64 values the calls are made with
RangeWords == 0..(MaxData + 1) \cup {U64Max}

InitRange ==
    /\ overflow_checks = FALSE
    /\ usize_bits \in {WordBits \div 2, WordBits}
    /\ \E n \in 0..MaxData : data \in [1..n -> Bytes]
    /\ Len(data) <= UsizeMax
    /\ data_address \in RangeWords
    /\ range_address \in RangeWords
    /\ range_size \in RangeWords
    /\ rg_pc = "call"
    /\ rg_result = <<>>
    /\ IdleMap /\ IdleDiff /\ IdleLink /\ IdleSession /\ IdleSearcher

\* the call and its return
DataRange ==
    /\ rg_pc = "call"
    /\ rg_result' = data_range(data, data_address, range_address, range_size)
    /\ rg_pc' = "returned"
    /\ UNCHANGED <<usize_bits, data, data_address, range_address, range_size, rg_others>>

NextRange == DataRange

SpecRange == InitRange /\ [][NextRange]_vars

\* C8: data_range returns exactly the `size` bytes from offset
\* range_address - data_address on when range_address >= data_address and
\* offset + size is within data, and an error otherwise: never fewer
\* bytes than asked for.  E.g. size 2 at offset 1 of data based at 0 is
\* the bytes [1, 3) of data.
C8_DataRange ==
    rg_pc = "returned" =>
        LET offset == range_address - data_address
        IN  /\ IF range_address >= data_address /\ offset + range_size <= Len(data)
               THEN /\ rg_result.ok
                    /\ rg_result.value = [i \in 1..range_size |-> data[offset + i]]
               ELSE ~rg_result.ok
            /\ rg_result.ok => Len(rg_result.value) = range_size
            /\ (data_address = 0 /\ range_address = 1 /\ range_size = 2 /\ Len(data) = 3)
                  => rg_result = Ok(<<data[2], data[3]>>)

\* C8 witness: a slice from the middle of a section that is not based at 0
C8_Witness ==
    /\ rg_pc = "returned"
    /\ data_address = 1 /\ range_address = 2 /\ range_size = 2
    /\ data = <<0, 1, 0>>
    /\ rg_result = Ok(<<1, 0>>)

\* C8 witness of the error: the size exceeds the bytes that are left
C8_WitnessError ==
    /\ rg_pc = "returned"
    /\ data_address = 0 /\ range_address = 2 /\ range_size = 2 /\ Len(data) = 3
    /\ ~rg_result.ok

(***************************************************************************)
(* The loader and Explorer::build                                 link.rs  *)
(***************************************************************************)
MaxPaths == 2

None == [some |-> FALSE]

Some(value) == [some |-> TRUE, value |-> value]

\* SymbolSection of a symbol
InSection(index) == [kind |-> "Section", index |-> index]

Undefined == [kind |-> "Undefined", index |-> 0]

Absolute == [kind |-> "Absolute", index |-> 0]

\* a symbol of an object file
Sym(name, address, size, section, global) ==
    [name |-> name, address |-> address, size |-> size, section |-> section, global |-> global]

\* an ObjectFile: its label and what object::File answers for it
Object(name, arch, format, symbols, sections) ==
    [name |-> name, arch |-> arch, format |-> format, symbols |-> symbols, sections |-> sections]

\* a file of an object, of an archive, of something else
ObjectBytes(arch, format, symbols) ==
    [kind |-> "object", arch |-> arch, format |-> format, symbols |-> symbols]

ArchiveBytes(members) == [kind |-> "archive", members |-> members]

Garbage == [kind |-> "garbage"]

\* an archive member: its stored name, and the object it parses to (Garbage
\* for a member that cannot be read or parsed)
Member(name, bytes) == [name |-> name, bytes |-> bytes]

\* a path given on the command line: its file name, split at the dots,
\* whether the name is UTF-8, and the file behind it
PathTo(file_name, opens, maps, utf8, bytes) ==
    [file_name |-> file_name, opens |-> opens, maps |-> maps, utf8 |-> utf8, bytes |-> bytes]

OneSymbol == <<Sym("main", 0, 1, InSection(1), TRUE)>>

\* the paths of the model
PathUniverse ==
    { PathTo(<<"a", "o">>, TRUE, TRUE, TRUE, ObjectBytes("X86_64", "Elf", OneSymbol)),
      PathTo(<<"arm", "o">>, TRUE, TRUE, TRUE, ObjectBytes("Aarch64", "Elf", OneSymbol)),
      PathTo(<<"mac", "o">>, TRUE, TRUE, TRUE, ObjectBytes("X86_64", "MachO", OneSymbol)),
      PathTo(<<"rv", "o">>, TRUE, TRUE, TRUE, ObjectBytes("Riscv64", "Elf", OneSymbol)),
      PathTo(<<"sym", "o">>, TRUE, TRUE, TRUE,
             ObjectBytes("X86_64", "Elf", <<Sym(NameError, 0, 1, InSection(1), TRUE)>>)),
      PathTo(<<"und", "o">>, TRUE, TRUE, TRUE,
             ObjectBytes("X86_64", "Elf", <<Sym("main", 0, 1, InSection(1), TRUE),
                                            Sym("ext", 0, 0, Undefined, TRUE),
                                            Sym("main", 2, 1, InSection(1), FALSE)>>)),
      PathTo(<<"bad", "o">>, TRUE, TRUE, TRUE, Garbage),
      PathTo(<<"gone", "o">>, FALSE, TRUE, TRUE, Garbage),
      PathTo(<<"nomap", "a">>, TRUE, FALSE, TRUE, Garbage),
      PathTo(<<"latin1", "o">>, TRUE, TRUE, FALSE, ObjectBytes("X86_64", "Elf", OneSymbol)),
      PathTo(<<"lib", "a">>, TRUE, TRUE, TRUE,
             ArchiveBytes(<<Member("m1.o", ObjectBytes("X86_64", "Elf", OneSymbol)),
                            Member("m2.o", ObjectBytes("X86_64", "Elf", <<>>))>>)),
      PathTo(<<"none", "a">>, TRUE, TRUE, TRUE, ArchiveBytes(<<>>)),
      PathTo(<<"mix", "rlib">>, TRUE, TRUE, TRUE,
             ArchiveBytes(<<Member("x.o", ObjectBytes("X86_64", "Elf", OneSymbol)),
                            Member("y.o", ObjectBytes("Aarch64", "Elf", OneSymbol))>>)),
      PathTo(<<"cut", "a">>, TRUE, TRUE, TRUE,
             ArchiveBytes(<<Member("m1.o", ObjectBytes("X86_64", "Elf", OneSymbol)),
                            Member("m2.o", Garbage)>>)),
      PathTo(<<"junk", "rlib">>, TRUE, TRUE, TRUE, Garbage),
      PathTo(<<"notes", "txt">>, TRUE, TRUE, TRUE, ObjectBytes("X86_64", "Elf", OneSymbol)),
      PathTo(<<"README">>, TRUE, TRUE, TRUE, ObjectBytes("X86_64", "Elf", OneSymbol)),
      PathTo(<<"", "o">>, TRUE, TRUE, TRUE, ObjectBytes("X86_64", "Elf", OneSymbol)),
      PathTo(<<"lib", "tar", "a">>, TRUE, TRUE, TRUE, ArchiveBytes(<<>>)) }

\* Path::extension: the part of the file name after its last dot; none
\* when there is no dot, or when the only dot begins the name
Extension(file_name) ==
    IF Len(file_name) < 2 THEN None
    ELSE IF Len(file_name) = 2 /\ file_name[1] = "" THEN None
    ELSE Some(file_name[Len(file_name)])

\* a plausible slip: any extension that is not an archive's is read as an object
IsObjectExtension_Fallback(ext) == ~(ext.some /\ ext.value \in {"a", "rlib"})

\* path.file_name(): the parts of the name with their dots
RECURSIVE FileName(_)
FileName(parts) ==
    IF Len(parts) = 1 THEN parts[1]
    ELSE parts[1] \o "." \o FileName(Tail(parts))

\* ext == OsStr::new("o")
IsObjectExtension(ext) == ext.some /\ ext.value = "o"

\* ext == OsStr::new("a") || ext == OsStr::new("rlib")
IsArchiveExtension(ext) == ext.some /\ ext.value \in {"a", "rlib"}

\* File::parse of the bytes, labelled name
ParseObject(name, bytes) ==
    IF bytes.kind = "object"
    THEN Ok(Object(name, bytes.arch, bytes.format, bytes.symbols, <<>>))
    ELSE Err([kind |-> "parse", what |-> name])

\* the closure of exec's map: one path to Result<Archive>
Dispatch(path) ==
    LET ext == Extension(path.file_name)
    IN  IF IsArchiveExtension(ext)
        THEN IF path.bytes.kind = "archive"
             THEN Ok([parser |-> "archive", items |-> path.bytes.members])
             ELSE Err([kind |-> "parse", what |-> FileName(path.file_name)])
        ELSE IF IsObjectExtension(ext)
        THEN IF ~path.utf8 THEN Err([kind |-> "not utf8 name", what |-> FileName(path.file_name)])
             ELSE IF ParseObject(FileName(path.file_name), path.bytes).ok
             THEN Ok([parser |-> "object",
                      items |-> <<Member(FileName(path.file_name), path.bytes)>>])
             ELSE ParseObject(FileName(path.file_name), path.bytes)
        ELSE Err([kind |-> "no support extension", what |-> ext])

\* a plausible slip: the format of the objects is not compared
FormatMismatch_Unchecked(objs) == {}

\* list.iter().find(|obj| obj.file.format() != format)
FormatMismatch(objs) == { i \in 1..Len(objs) : objs[i].format # objs[1].format }

\* list.iter().find(|obj| obj.file.architecture() != arch)
ArchMismatch(objs) == { i \in 1..Len(objs) : objs[i].arch # objs[1].arch }

Min(set) == CHOOSE x \in set : \A y \in set : x <= y

\* a plausible slip: the symbols that are undefined are passed over
RECURSIVE ScanOrder_DefinedOnly(_, _)
ScanOrder_DefinedOnly(objs, from) ==
    IF from > Len(objs) THEN <<>>
    ELSE LET Defined(pos) ==
                 objs[pos.obj_idx].symbols[pos.sym_idx].section.kind # "Undefined"
         IN  SelectSeq([i \in 1..Len(objs[from].symbols) |->
                           [obj_idx |-> from, sym_idx |-> i]], Defined)
             \o ScanOrder_DefinedOnly(objs, from + 1)

\* the (object, symbol) pairs in the order build scans them
RECURSIVE ScanOrder(_, _)
ScanOrder(objs, from) ==
    IF from > Len(objs) THEN <<>>
    ELSE [i \in 1..Len(objs[from].symbols) |-> [obj_idx |-> from, sym_idx |-> i]]
         \o ScanOrder(objs, from + 1)

\* the IndexMap after the entries of a scan: the keys in insertion order
\* and the positions under each key
RECURSIVE IndexScan(_, _, _)
IndexScan(objs, scan, index) ==
    IF scan = <<>> THEN index
    ELSE LET pos == Head(scan)
             name == objs[pos.obj_idx].symbols[pos.sym_idx].name
         IN  IndexScan(objs, Tail(scan),
                 IF name \in DOMAIN index.positions
                 THEN [keys |-> index.keys,
                       positions |-> Put(index.positions, name,
                                         Append(index.positions[name], pos))]
                 ELSE [keys |-> Append(index.keys, name),
                       positions |-> Put(index.positions, name, <<pos>>)])

EmptyIndex == [keys |-> <<>>, positions |-> [x \in {} |-> <<>>]]

\* Explorer::build(list)
ExplorerBuild(objs) ==
    IF objs = <<>> THEN Err([kind |-> "not found object", what |-> <<>>])
    ELSE IF ArchMismatch(objs) # {}
    THEN Err([kind |-> "inconsistent architecture",
              what |-> <<objs[1].arch, objs[Min(ArchMismatch(objs))].arch,
                         objs[Min(ArchMismatch(objs))].name>>])
    ELSE IF FormatMismatch(objs) # {}
    THEN Err([kind |-> "inconsistent format",
              what |-> <<objs[1].format, objs[Min(FormatMismatch(objs))].format,
                         objs[Min(FormatMismatch(objs))].name>>])
    ELSE IF objs[1].arch \notin {"Aarch64", "X86_64"}
    THEN Err([kind |-> "unsupport arch", what |-> objs[1].arch])
    ELSE IF \E i \in 1..Len(objs) : \E j \in 1..Len(objs[i].symbols) :
                objs[i].symbols[j].name = NameError
    THEN Err([kind |-> "bad symbol name", what |-> <<>>])
    ELSE Ok([arch |-> objs[1].arch, format |-> objs[1].format,
             symbol_map |-> IndexScan(objs, ScanOrder(objs, 1), EmptyIndex),
             current_obj_idx |-> None])

InitLoad ==
    /\ overflow_checks = FALSE
    /\ usize_bits = WordBits
    /\ \E n \in 0..MaxPaths : objects \in [1..n -> PathUniverse]
    /\ ld_pc = "open"
    /\ ld_idx = 0
    /\ subiter = <<>>
    /\ ld_parsed = <<>>
    /\ list = <<>>
    /\ ld_error = <<>>
    /\ explorer = <<>>
    /\ IdleMap /\ IdleDiff /\ IdleRange /\ IdleSession /\ IdleSearcher

\* fds: every path is opened, the first failure is returned
LoadOpen ==
    /\ ld_pc = "open"
    /\ LET failing == { i \in 1..Len(objects) : ~objects[i].opens }
       IN  IF failing = {}
           THEN ld_pc' = "mmap" /\ UNCHANGED ld_error
           ELSE /\ ld_pc' = "failed"
                /\ ld_error' = [kind |-> "open", what |-> FileName(objects[Min(failing)].file_name)]
    /\ UNCHANGED <<objects, ld_idx, subiter, ld_parsed, list, explorer, ld_others>>

\* bufs: every file is mapped, the first failure is returned
LoadMmap ==
    /\ ld_pc = "mmap"
    /\ LET failing == { i \in 1..Len(objects) : ~objects[i].maps }
       IN  IF failing = {}
           THEN ld_pc' = "iter" /\ UNCHANGED ld_error
           ELSE /\ ld_pc' = "failed"
                /\ ld_error' = [kind |-> "mmap", what |-> FileName(objects[Min(failing)].file_name)]
    /\ UNCHANGED <<objects, ld_idx, subiter, ld_parsed, list, explorer, ld_others>>

\* FlatResultIter::next with no subiter: the next path is dispatched
LoadNextPath ==
    /\ ld_pc = "iter"
    /\ subiter = <<>>
    /\ ld_idx < Len(objects)
    /\ LET archive == Dispatch(objects[ld_idx + 1])
       IN  IF archive.ok
           THEN /\ subiter' = <<archive.value.items>>
                /\ ld_parsed' = Append(ld_parsed, archive.value.parser)
                /\ UNCHANGED <<ld_pc, ld_error>>
           ELSE /\ ld_pc' = "failed"
                /\ ld_error' = archive.error
                /\ UNCHANGED <<subiter, ld_parsed>>
    /\ ld_idx' = ld_idx + 1
    /\ UNCHANGED <<objects, list, explorer, ld_others>>

\* a plausible slip: a member that fails to parse is passed over
LoadNextMember_SkipsBad ==
    /\ ld_pc = "iter"
    /\ subiter # <<>>
    /\ IF subiter[1] = <<>>
       THEN /\ subiter' = <<>>
            /\ UNCHANGED list
       ELSE LET member == Head(subiter[1])
                file == ParseObject(member.name, member.bytes)
            IN  /\ list' = IF file.ok THEN Append(list, file.value) ELSE list
                /\ subiter' = <<Tail(subiter[1])>>
    /\ UNCHANGED <<ld_pc, ld_error, objects, ld_idx, ld_parsed, explorer, ld_others>>

\* FlatResultIter::next with a subiter: ArchiveIter::next
LoadNextMember ==
    /\ ld_pc = "iter"
    /\ subiter # <<>>
    /\ IF subiter[1] = <<>>
       THEN /\ subiter' = <<>>
            /\ UNCHANGED <<ld_pc, list, ld_error>>
       ELSE LET member == Head(subiter[1])
                file == ParseObject(member.name, member.bytes)
            IN  IF file.ok
                THEN /\ list' = Append(list, file.value)
                     /\ subiter' = <<Tail(subiter[1])>>
                     /\ UNCHANGED <<ld_pc, ld_error>>
                ELSE /\ ld_pc' = "failed"
                     /\ ld_error' = file.error
                     /\ UNCHANGED <<subiter, list>>
    /\ UNCHANGED <<objects, ld_idx, ld_parsed, explorer, ld_others>>

\* the paths are exhausted: collect returns the list, explorer(&list) starts
LoadCollected ==
    /\ ld_pc = "iter"
    /\ subiter = <<>>
    /\ ld_idx = Len(objects)
    /\ ld_pc' = "explorer"
    /\ UNCHANGED <<objects, ld_idx, subiter, ld_parsed, list, ld_error, explorer, ld_others>>

\* explorer(): Explorer::build(list)?, then the command loop
ExplorerStart ==
    /\ ld_pc = "explorer"
    /\ IF ExplorerBuild(list).ok
       THEN /\ explorer' = ExplorerBuild(list).value
            /\ ld_pc' = "session"
            /\ UNCHANGED ld_error
       ELSE /\ ld_error' = ExplorerBuild(list).error
            /\ ld_pc' = "failed"
            /\ UNCHANGED explorer
    /\ UNCHANGED <<objects, ld_idx, subiter, ld_parsed, list, ld_others>>

NextLoad ==
    \/ LoadOpen \/ LoadMmap \/ LoadNextPath \/ LoadNextMember \/ LoadCollected
    \/ ExplorerStart

SpecLoad == InitLoad /\ [][NextLoad]_vars

(***************************************************************************)
(* The loader and Explorer::build: the claims                              *)
(***************************************************************************)
\* the paths whose extension is neither an archive's nor an object's
OtherExtension ==
    { i \in 1..Len(objects) :
        LET ext == Extension(objects[i].file_name)
        IN  ~(ext.some /\ ext.value \in {"a", "rlib", "o"}) }

\* every dispatched path went to the parser of its extension
ParsedByExtension ==
    \A i \in 1..Len(ld_parsed) :
        LET ext == Extension(objects[i].file_name)
        IN  /\ ld_parsed[i] = "archive" <=> (ext.some /\ ext.value \in {"a", "rlib"})
            /\ ld_parsed[i] = "object" <=> (ext.some /\ ext.value = "o")

\* C9 (as stated): .a and .rlib are parsed as archives, .o as an object,
\* and a path with any other extension, or none, makes the load fail with
\* the unsupported-extension error that names the extension; no session
\* is started.
C9_UnsupportedExtension ==
    /\ ParsedByExtension
    /\ OtherExtension # {} => ld_pc \notin {"explorer", "session"}
    /\ (OtherExtension # {} /\ ld_pc = "failed") =>
          /\ ld_error.kind = "no support extension"
          /\ \E i \in OtherExtension : ld_error.what = Extension(objects[i].file_name)

\* C9 (amended): .a and .rlib are parsed as archives, .o as an object, and
\* a path with any other extension, or none, makes the load fail, so no
\* session is started; the error is the unsupported-extension error naming
\* the extension of the first such path, unless a path cannot be opened or
\* mapped, or a path before it (or a member of it) fails to parse, which
\* is reported instead.
C9_DispatchByExtension ==
    /\ ParsedByExtension
    /\ OtherExtension # {} => ld_pc \notin {"explorer", "session"}
    /\ (OtherExtension # {} /\ ld_pc = "failed") =>
          LET first == Min(OtherExtension)
          IN  \/ /\ ld_idx = first
                 /\ ld_error = [kind |-> "no support extension",
                                what |-> Extension(objects[first].file_name)]
              \/ ld_error.kind \in {"open", "mmap"}
              \/ /\ ld_idx < first
                 /\ ld_error.kind \in {"parse", "not utf8 name"}

\* C9 witness: an object was parsed, then notes.txt failed the load with
\* the error naming txt
C9_Witness ==
    /\ ld_pc = "failed"
    /\ Len(objects) = 2
    /\ objects[1].file_name = <<"a", "o">> /\ objects[2].file_name = <<"notes", "txt">>
    /\ ld_parsed = <<"object">>
    /\ Len(list) = 1
    /\ ld_error = [kind |-> "no support extension", what |-> Some("txt")]

\* the errors of the loader, before Explorer::build runs
LoaderErrors == {"open", "mmap", "parse", "not utf8 name", "no support extension"}

\* C10: when Explorer::build has succeeded the list is not empty and every
\* object of it has the architecture and the format of the first one; on an
\* empty list build fails.
C10_LoadedSet ==
    /\ ld_pc = "session" =>
          /\ list # <<>>
          /\ \A i \in 1..Len(list) :
                list[i].arch = list[1].arch /\ list[i].format = list[1].format
          /\ explorer.arch = list[1].arch /\ explorer.format = list[1].format
    /\ (ld_pc = "failed" /\ ld_error.kind \notin LoaderErrors /\ list = <<>>) =>
          ld_error.kind = "not found object"
    /\ (ld_pc = "failed" /\ ld_error.kind = "not found object") => list = <<>>

\* C10 witness: a session over the two members of an archive and an object
C10_Witness ==
    /\ ld_pc = "session"
    /\ Len(list) = 3
    /\ Len(objects) = 2
    /\ list[3].name = "a.o"

\* C10 witness of the empty list: an archive without members
C10_WitnessEmpty ==
    /\ ld_pc = "failed"
    /\ Len(objects) = 1 /\ objects[1].file_name = <<"none", "a">>
    /\ ld_error.kind = "not found object"

(***************************************************************************)
(* The command loop of explorer(): the object files                link.rs  *)
(***************************************************************************)
\* a relocation of a section: (offset, Relocation)
Reloc(offset, target, addend) == [offset |-> offset, target |-> target, addend |-> addend]

\* object::read::RelocationTarget
TargetSymbol(index) == [kind |-> "Symbol", index |-> index]

TargetSection(index) == [kind |-> "Section", index |-> index]

TargetAbsolute == [kind |-> "Absolute", index |-> 0]

\* a section of an object file: bytes is what the file stores for it
Section(name, address, size, kind, compression, bytes, relocations) ==
    [name |-> name, address |-> address, size |-> size, kind |-> kind,
     compression |-> compression, bytes |-> bytes, relocations |-> relocations]

\* the decompression of the stored bytes of a compressed section, here a
\* run-length code: each stored byte stands for two bytes of data
RECURSIVE Inflate(_)
Inflate(stored) ==
    IF stored = <<>> THEN <<>>
    ELSE <<Head(stored), Head(stored)>> \o Inflate(Tail(stored))

\* section.uncompressed_data(): the stored bytes, borrowed, of a section
\* that is not compressed; the decompressed bytes, owned, of one that is;
\* an error when the compressed bytes are corrupt
uncompressed_data(section) ==
    IF section.compression = "none"
    THEN Ok([cow |-> "Borrowed", data |-> section.bytes])
    ELSE IF section.compression = "zlib"
    THEN Ok([cow |-> "Owned", data |-> Inflate(section.bytes)])
    ELSE Err("decompress failed")

\* obj.file.section_by_index(idx)
section_by_index(obj, idx) ==
    IF idx \in 1..Len(obj.sections) THEN Ok(obj.sections[idx])
    ELSE Err("invalid section index")

\* obj.file.symbol_by_index(idx)
symbol_by_index(obj, idx) ==
    IF idx \in 1..Len(obj.symbols) THEN Ok(obj.symbols[idx])
    ELSE Err("invalid symbol index")

\* the sequence s with x put before the first element whose key is larger
\* (a stable sort keeps equal keys in their order of arrival)
RECURSIVE InsertByKey(_, _, _)
InsertByKey(s, x, key) ==
    IF s = <<>> THEN <<x>>
    ELSE IF Head(s)[key] > x[key] THEN <<x>> \o s
    ELSE <<Head(s)>> \o InsertByKey(Tail(s), x, key)

\* slice.sort_by_key(|x| x.key): stable
RECURSIVE SortByKey(_, _)
SortByKey(s, key) ==
    IF s = <<>> THEN <<>>
    ELSE InsertByKey(SortByKey(SubSeq(s, 1, Len(s) - 1), key), s[Len(s)], key)

\* the symbols of a table that are definitions (in a section), in their order
RECURSIVE Definitions(_)
Definitions(symbols) ==
    IF symbols = <<>> THEN <<>>
    ELSE (IF Head(symbols).section.kind = "Section" THEN <<Head(symbols)>> ELSE <<>>)
         \o Definitions(Tail(symbols))

\* obj.file.symbol_map(): the definitions sorted by address, equal
\* addresses kept
symbol_map(obj) == SortByKey(Definitions(obj.symbols), "address")

\* relocs.partition_point(|(offset, _)| *offset < bound): the binary
\* search of the standard library between left and right
RECURSIVE PartitionStep(_, _, _, _)
PartitionStep(relocs, bound, left, right) ==
    IF left >= right THEN left
    ELSE LET mid == left + ((right - left) \div 2)
         IN  IF relocs[mid + 1].offset < bound
             THEN PartitionStep(relocs, bound, mid + 1, right)
             ELSE PartitionStep(relocs, bound, left, mid)

partition_point(relocs, bound) == PartitionStep(relocs, bound, 0, Len(relocs))

\* slice.get(start..end): None when start > end or end > len
GetRange(s, start, end) ==
    IF start > end \/ end > Len(s) THEN None ELSE Some(SubSeq(s, start + 1, end))

\* char::to_ascii_uppercase on the kinds of symbol_kind
ToAsciiUppercase(kind) ==
    CASE kind = "t" -> "T" [] kind = "d" -> "D" [] kind = "r" -> "R"
      [] kind = "b" -> "B" [] OTHER -> kind

\* str::parse::<usize> on the tokens of the model
ParseUsize(token) ==
    CASE token = "0" -> Ok(0) [] token = "1" -> Ok(1) [] token = "2" -> Ok(2)
      [] token = "+1" -> Ok(1) [] OTHER -> Err("need index number")

(***************************************************************************)
(* Explorer and Cache.  Objects, symbols and sections are counted from 1.  *)
(***************************************************************************)
\* Explorer::get(name)
get(name) ==
    IF name \in DOMAIN explorer.symbol_map.positions
    THEN Ok(explorer.symbol_map.positions[name])
    ELSE Err("not found symbol")

\* syms.iter().filter(|sym| sym.obj_idx == obj_idx)
RECURSIVE InObject(_, _)
InObject(syms, obj_idx) ==
    IF syms = <<>> THEN <<>>
    ELSE (IF Head(syms).obj_idx = obj_idx THEN <<Head(syms)>> ELSE <<>>)
         \o InObject(Tail(syms), obj_idx)

\* a plausible slip: the current object is not consulted
Narrowed_Unfiltered(syms) == syms

\* select: the occurrences left after the filter of the current object
Narrowed(syms) ==
    IF Len(syms) = 1 THEN syms
    ELSE IF explorer.current_obj_idx.some
    THEN InObject(syms, explorer.current_obj_idx.value)
    ELSE syms

\* select(explorer, syms, iter)
select(syms, iter) ==
    LET narrowed == Narrowed(syms)
    IN  IF Len(narrowed) = 1 THEN Ok(Some(narrowed[1]))
        ELSE IF iter.some
        THEN IF ~ParseUsize(iter.value).ok THEN Err("need index number")
             ELSE IF ParseUsize(iter.value).value >= Len(narrowed)
             THEN Err("index too large")
             ELSE Ok(Some(narrowed[ParseUsize(iter.value).value + 1]))
        ELSE Ok(None)

\* Explorer::symbol_kind(pos)
symbol_kind(pos) ==
    LET obj == list[pos.obj_idx]
        sym == obj.symbols[pos.sym_idx]
        section == section_by_index(obj, sym.section.index)
        kind == CASE sym.section.kind = "Undefined" -> "U"
                  [] sym.section.kind = "Absolute" -> "A"
                  [] sym.section.kind = "Section" /\ section.ok ->
                        (CASE section.value.kind = "Text" -> "t"
                           [] section.value.kind = "Data" -> "d"
                           [] section.value.kind = "ReadOnlyData" -> "r"
                           [] section.value.kind = "UninitializedData" -> "b"
                           [] OTHER -> "?")
                  [] OTHER -> "?"
    IN  IF sym.global THEN ToAsciiUppercase(kind) ELSE kind

\* Cache::init_symmap
init_symmap(c) ==
    IF explorer.format # "MachO" \/ c.symmap_list # <<>> THEN c
    ELSE [c EXCEPT !.symmap_list = [i \in 1..Len(list) |-> symbol_map(list[i])]]

\* symmap.symbols().binary_search_by_key(&address, |sym| sym.address()):
\* the position of a symbol with the address; which one, when several have
\* it, is the build's
binary_search_by_key(symmap, address) ==
    LET found == { i \in 1..Len(symmap) : symmap[i].address = address }
    IN  IF found = {} THEN Err("not found symbol address")
        ELSE IF binary_search_pick = "lowest" THEN Ok(Min(found))
        ELSE Ok(CHOOSE i \in found : \A j \in found : j <= i)

\* the outcome of a method: a panic, or the method's Result and the cache
\* it leaves
Panicked(c) == [panic |-> TRUE, cache |-> c, result |-> Err("panic")]

Returned(c, result) == [panic |-> FALSE, cache |-> c, result |-> result]

\* Explorer::index(cache, pos)
index(c, pos) ==
    LET obj == list[pos.obj_idx]
        sym == obj.symbols[pos.sym_idx]
        Symbol(size) == [pos |-> pos, section_idx |-> sym.section.index,
                         address |-> sym.address, size |-> size,
                         kind |-> symbol_kind(pos)]
    IN  IF sym.section.kind = "Undefined" THEN Returned(c, Err("symbol is undefined"))
        ELSE IF sym.section.kind # "Section" THEN Returned(c, Err("bad section"))
        ELSE IF explorer.format # "MachO" THEN Returned(c, Ok(Symbol(sym.size)))
        ELSE LET c2 == init_symmap(c)
                 symmap == c2.symmap_list[pos.obj_idx]
                 idx == binary_search_by_key(symmap, sym.address)
                 section == section_by_index(obj, sym.section.index)
             IN  IF ~idx.ok THEN Returned(c2, idx)
                 ELSE IF idx.value + 1 <= Len(symmap)
                 THEN Returned(c2, Ok(Symbol(symmap[idx.value + 1].address - sym.address)))
                 ELSE IF ~section.ok THEN Returned(c2, section)
                 ELSE LET end == section.value.address + section.value.size
                      IN  IF overflow_checks /\ (end > U64Max \/ end < sym.address)
                          THEN Panicked(c2)
                          ELSE Returned(c2, Ok(Symbol(
                                   WrapSub(WrapAdd(section.value.address,
                                                   section.value.size), sym.address))))

\* a plausible slip: the decompressed bytes are not kept
InsertDecompressed_Dropped(c, cache_idx, section_addr, bytes) == c

\* entry.insert((section_addr, data))
InsertDecompressed(c, cache_idx, section_addr, bytes) ==
    [c EXCEPT !.decompress_sections =
        Put(@, cache_idx, [section_addr |-> section_addr, data |-> bytes])]

\* Explorer::dump(cache, sym): the cache it leaves, its Result, and what
\* became of the decompression if it ran one
dump(c, sym) ==
    LET cache_idx == <<sym.pos.obj_idx, sym.section_idx>>
        Life(life, range) ==
            IF range.ok THEN Ok([life |-> life, data |-> range.value]) ELSE range
        section == section_by_index(list[sym.pos.obj_idx], sym.section_idx)
    IN  IF cache_idx \in DOMAIN c.decompress_sections
        THEN LET entry == c.decompress_sections[cache_idx]
             IN  [cache |-> c, decompression |-> "none",
                  result |-> Life("Left", data_range(entry.data, entry.section_addr,
                                                     sym.address, sym.size))]
        ELSE IF ~section.ok
        THEN [cache |-> c, decompression |-> "none", result |-> section]
        ELSE LET section_addr == section.value.address
                 bytes == uncompressed_data(section.value)
             IN  IF ~bytes.ok
                 THEN [cache |-> c, decompression |-> "failed", result |-> bytes]
                 ELSE IF bytes.value.cow = "Borrowed"
                 THEN [cache |-> c, decompression |-> "none",
                       result |-> Life("Right", data_range(bytes.value.data, section_addr,
                                                           sym.address, sym.size))]
                 ELSE LET c2 == InsertDecompressed(c, cache_idx, section_addr,
                                                   bytes.value.data)
                          kept == IF cache_idx \in DOMAIN c2.decompress_sections
                                  THEN c2.decompress_sections[cache_idx].data
                                  ELSE bytes.value.data
                      IN  [cache |-> c2, decompression |-> "done",
                           result |-> Life("Left", data_range(kept, section_addr,
                                                              sym.address, sym.size))]

\* a plausible slip: the relocations are kept in the order of the file
SortRelocs_Unsorted(relocs) == relocs

\* list.sort_by_key(|(offset, _)| *offset)
SortRelocs(relocs) == SortByKey(relocs, "offset")

\* Cache::init_reloc(explorer, sym): the cache it leaves and its Result
init_reloc(c, sym) ==
    LET obj_idx == sym.pos.obj_idx
        reloc_list == IF c.reloc_list = <<>> THEN [i \in 1..Len(list) |-> <<>>]
                      ELSE c.reloc_list
        sections == reloc_list[obj_idx]
        entry == IF sym.section_idx \in DOMAIN sections THEN sections[sym.section_idx] ELSE <<>>
        section == section_by_index(list[obj_idx], sym.section_idx)
        With(relocs) ==
            [c EXCEPT !.reloc_list =
                [reloc_list EXCEPT ![obj_idx] = Put(sections, sym.section_idx, relocs)]]
    IN  IF entry # <<>> THEN [cache |-> With(entry), result |-> Ok(<<>>)]
        ELSE IF ~section.ok THEN [cache |-> With(<<>>), result |-> section]
        ELSE [cache |-> With(SortRelocs(section.value.relocations)), result |-> Ok(<<>>)]

\* Explorer::reloc(cache, sym)
reloc(c, sym) ==
    LET init == init_reloc(c, sym)
        relocs == init.cache.reloc_list[sym.pos.obj_idx][sym.section_idx]
        section == section_by_index(list[sym.pos.obj_idx], sym.section_idx)
        address == WrapSub(sym.address, section.value.address)
        start == partition_point(relocs, address)
        end == partition_point(relocs, WrapAdd(address, sym.size))
        slice == GetRange(relocs, start, end)
        picked == IF slice.some THEN slice.value ELSE <<>>
    IN  IF ~init.result.ok THEN Returned(init.cache, init.result)
        ELSE IF ~section.ok THEN Returned(init.cache, section)
        ELSE IF overflow_checks /\ (sym.address < section.value.address
                                    \/ address + sym.size > U64Max)
        THEN Panicked(init.cache)
        ELSE IF \E i \in 1..Len(picked) : picked[i].target.kind \notin {"Symbol", "Section"}
        THEN Returned(init.cache, Err("not support target"))
        ELSE Returned(init.cache, Ok(picked))

(***************************************************************************)
(* exec: one line of the command loop                                      *)
(***************************************************************************)
MaxDecompressions == 2

\* how often the decompression of a section ran, and how often it succeeded
Decompressions(key) ==
    IF key \in DOMAIN decompressions THEN decompressions[key] ELSE [calls |-> 0, done |-> 0]

\* print_syms_list(explorer, syms)
print_syms_list(syms) ==
    [i \in 1..Len(syms) |->
        [idx |-> i - 1, kind |-> symbol_kind(syms[i]), by |-> list[syms[i].obj_idx].name]]

\* the start of the dump and reloc arms: the name, get, select, index
Resolve(c, line) ==
    LET syms == get(line[2])
        iter == IF Len(line) >= 3 THEN Some(line[3]) ELSE None
        pos == select(syms.value, iter)
        Stop(error, rows) ==
            [panic |-> FALSE, cache |-> c, pos |-> None, result |-> error, out |-> rows]
    IN  IF Len(line) < 2 THEN Stop(Err("need symbol name"), <<>>)
        ELSE IF ~syms.ok THEN Stop(syms, <<>>)
        ELSE IF ~pos.ok THEN Stop(pos, <<>>)
        ELSE IF ~pos.value.some
        THEN Stop(Err("duplicate symbol"), print_syms_list(syms.value))
        ELSE LET sym == index(c, pos.value.value)
             IN  [panic |-> sym.panic, cache |-> sym.cache, pos |-> pos.value,
                  result |-> sym.result, out |-> <<>>]

\* the rows of the reloc arm, up to the first target that cannot be read
RECURSIVE PrintRelocs(_, _, _)
PrintRelocs(obj, relocs, rows) ==
    IF relocs = <<>> THEN [result |-> Ok(<<>>), out |-> rows]
    ELSE LET r == Head(relocs)
             target == IF r.target.kind = "Symbol"
                       THEN symbol_by_index(obj, r.target.index)
                       ELSE section_by_index(obj, r.target.index)
         IN  IF ~target.ok THEN [result |-> target, out |-> rows]
             ELSE PrintRelocs(obj, Tail(relocs),
                      Append(rows, [offset |-> r.offset, addend |-> r.addend,
                                    ty |-> IF r.target.kind = "Symbol" THEN "symbol"
                                           ELSE "section",
                                    addr |-> target.value.address,
                                    name |-> target.value.name]))

\* exec returned: the loop prints the error, if any, and reads on
Finish(line, c, result, pos, sym, value, out) ==
    /\ cache' = c
    /\ ss_last' = [line |-> line, result |-> result, pos |-> pos, sym |-> sym,
                   value |-> value, out |-> out]
    /\ UNCHANGED ld_pc

\* exec panicked: the process is gone
Panic(line, pos) ==
    /\ ld_pc' = "panicked"
    /\ ss_last' = [line |-> line, result |-> Err("panic"), pos |-> pos, sym |-> None,
                   value |-> None, out |-> <<>>]
    /\ UNCHANGED cache

\* Some("obj")
ExecObj ==
    /\ ld_pc = "session"
    /\ \E line \in ss_lines :
        /\ line # <<>> /\ line[1] = "obj"
        /\ LET named == { i \in 1..Len(list) : list[i].name = line[2] }
           IN  IF Len(line) = 1
               THEN /\ Finish(line, cache, Ok(<<>>), None, None, None,
                              <<IF explorer.current_obj_idx.some
                                THEN list[explorer.current_obj_idx.value].name
                                ELSE "none">>)
                    /\ UNCHANGED explorer
               ELSE IF line[2] = "none"
               THEN /\ explorer' = [explorer EXCEPT !.current_obj_idx = None]
                    /\ Finish(line, cache, Ok(<<>>), None, None, None, <<>>)
               ELSE IF named = {}
               THEN /\ Finish(line, cache, Err("not found object"), None, None, None, <<>>)
                    /\ UNCHANGED explorer
               ELSE /\ explorer' = [explorer EXCEPT !.current_obj_idx = Some(Min(named))]
                    /\ Finish(line, cache, Ok(<<>>), None, None, None, <<>>)
    /\ UNCHANGED <<decompressions, dumped, ss_others>>

\* the names of the sections that have one
RECURSIVE SectionNames(_)
SectionNames(sections) ==
    IF sections = <<>> THEN <<>>
    ELSE (IF Head(sections).name # "" THEN <<Head(sections).name>> ELSE <<>>)
         \o SectionNames(Tail(sections))

\* Some("section")
ExecSection ==
    /\ ld_pc = "session"
    /\ \E line \in ss_lines :
        /\ line # <<>> /\ line[1] = "section"
        /\ Finish(line, cache, Ok(<<>>), None, None, None,
                  [i \in 1..Len(list) |->
                      [obj |-> list[i].name, sections |-> SectionNames(list[i].sections)]])
    /\ UNCHANGED <<explorer, decompressions, dumped, ss_others>>

\* the dump arm once the symbol is resolved: explorer.dump, the header
\* line, and the bytes or their disassembly
DumpResolved(line, pos, c, sym) ==
    \E bytes \in {dump(c, sym)} :
    \E section \in {section_by_index(list[sym.pos.obj_idx], sym.section_idx)} :
    \E key \in {<<sym.pos.obj_idx, sym.section_idx>>} :
    \E at \in {<<sym.pos.obj_idx, sym.pos.sym_idx>>} :
        /\ bytes.decompression # "none" => Decompressions(key).calls < MaxDecompressions
        /\ decompressions' =
              IF bytes.decompression = "none" THEN decompressions
              ELSE Put(decompressions, key,
                       [calls |-> Decompressions(key).calls + 1,
                        done |-> Decompressions(key).done +
                                 (IF bytes.decompression = "done" THEN 1 ELSE 0)])
        /\ IF ~bytes.result.ok
           THEN /\ Finish(line, bytes.cache, bytes.result, pos, Some(sym), None, <<>>)
                /\ UNCHANGED dumped
           ELSE IF ~section.ok
           THEN /\ Finish(line, bytes.cache, section, pos, Some(sym),
                          Some(bytes.result.value), <<>>)
                /\ UNCHANGED dumped
           ELSE IF overflow_checks /\ sym.address < section.value.address
           THEN Panic(line, pos) /\ UNCHANGED dumped
           ELSE /\ Finish(line, bytes.cache, Ok(<<>>), pos, Some(sym),
                          Some(bytes.result.value),
                          <<[address |-> sym.address, kind |-> sym.kind, size |-> sym.size,
                             obj |-> list[sym.pos.obj_idx].name,
                             section |-> section.value.name,
                             shown |-> IF sym.kind \in {"t", "T"} THEN "disasm"
                                       ELSE "bytes",
                             offset |-> WrapSub(sym.address, section.value.address),
                             data |-> bytes.result.value.data]>>)
                /\ dumped' = IF at \in DOMAIN dumped THEN dumped
                             ELSE Put(dumped, at, bytes.result.value.data)

\* Some("dump")
ExecDump ==
    /\ ld_pc = "session"
    /\ \E line \in ss_lines :
        /\ line # <<>> /\ line[1] = "dump"
        /\ \E found \in {Resolve(cache, line)} :
              IF found.panic
              THEN Panic(line, found.pos) /\ UNCHANGED <<decompressions, dumped>>
              ELSE IF ~found.result.ok
              THEN /\ Finish(line, found.cache, found.result, found.pos, None, None,
                             found.out)
                   /\ UNCHANGED <<decompressions, dumped>>
              ELSE DumpResolved(line, found.pos, found.cache, found.result.value)
    /\ UNCHANGED <<explorer, ss_others>>

\* the reloc arm once the symbol is resolved: explorer.reloc and the rows
RelocResolved(line, pos, c, sym) ==
    \E relocs \in {reloc(c, sym)} :
        IF relocs.panic THEN Panic(line, pos)
        ELSE IF ~relocs.result.ok
        THEN Finish(line, relocs.cache, relocs.result, pos, Some(sym), None, <<>>)
        ELSE \E printed \in {PrintRelocs(list[sym.pos.obj_idx], relocs.result.value, <<>>)} :
                Finish(line, relocs.cache, printed.result, pos, Some(sym),
                       Some(relocs.result.value), printed.out)

\* Some("reloc")
ExecReloc ==
    /\ ld_pc = "session"
    /\ \E line \in ss_lines :
        /\ line # <<>> /\ line[1] = "reloc"
        /\ \E found \in {Resolve(cache, line)} :
              IF found.panic THEN Panic(line, found.pos)
              ELSE IF ~found.result.ok
              THEN Finish(line, found.cache, found.result, found.pos, None, None, found.out)
              ELSE RelocResolved(line, found.pos, found.cache, found.result.value)
    /\ UNCHANGED <<explorer, decompressions, dumped, ss_others>>

\* Some(cmd) => bail!("unknown command"), and the empty line
ExecOther ==
    /\ ld_pc = "session"
    /\ \E line \in ss_lines :
        /\ IF line = <<>> THEN TRUE
           ELSE line[1] \notin {"obj", "section", "search", "dump", "reloc"}
        /\ Finish(line, cache, IF line = <<>> THEN Ok(<<>>) ELSE Err("unknown command"),
                  None, None, None, <<>>)
    /\ UNCHANGED <<explorer, decompressions, dumped, ss_others>>

\* Err(ReadlineError::Eof) | Err(ReadlineError::Interrupted) => break
ReadEof ==
    /\ ld_pc = "session"
    /\ ld_pc' = "exited"
    /\ UNCHANGED <<explorer, cache, ss_last, decompressions, dumped, ss_others>>

\* Err(err) => return Err(err.into()): the terminal could not be read
ReadError ==
    /\ ld_pc = "session"
    /\ ld_pc' = "read error"
    /\ UNCHANGED <<explorer, cache, ss_last, decompressions, dumped, ss_others>>

NextSession ==
    ExecObj \/ ExecSection \/ ExecDump \/ ExecReloc \/ ExecOther \/ ReadEof \/ ReadError

\* the session that explorer() starts on a list: the Explorer built from
\* it and an empty Cache.  (The paths behind the list play no part.)
InitSession(lists, profiles, picks, lines) ==
    /\ overflow_checks \in profiles
    /\ usize_bits = WordBits
    /\ binary_search_pick \in picks
    /\ list \in lists
    /\ ExplorerBuild(list).ok
    /\ explorer = ExplorerBuild(list).value
    /\ ss_lines = lines
    /\ ld_pc = "session"
    /\ objects = <<>> /\ ld_idx = 0 /\ subiter = <<>> /\ ld_parsed = <<>> /\ ld_error = <<>>
    /\ cache = EmptyCache
    /\ ss_last = <<>> /\ decompressions = <<>> /\ dumped = <<>>
    /\ search = IdleSearch
    /\ IdleMap /\ IdleDiff /\ IdleRange /\ IdleSearcher

(***************************************************************************)
(* Sessions over objects that share symbol names                           *)
(***************************************************************************)
MaxObjects == 2

\* the labels of the objects of a list: the third repeats the first, as
\* two archives may hold members of one name
ObjectName(i) == IF i = 2 THEN "b.o" ELSE "a.o"

TextSection == Section(".text", 0, 2, "Text", "none", <<0, 1>>, <<>>)

\* the symbol tables an object may have: "baz" may be in several objects,
\* and twice in one
SymbolTables ==
    { <<>>,
      <<Sym("baz", 0, 1, InSection(1), TRUE)>>,
      <<Sym("bar", 0, 2, InSection(1), TRUE), Sym("baz", 1, 1, InSection(1), TRUE)>>,
      <<Sym("baz", 0, 1, InSection(1), TRUE), Sym("baz", 1, 1, InSection(1), FALSE)>> }

SelectLists ==
    UNION { { [i \in 1..n |-> Object(ObjectName(i), "X86_64", "Elf", tables[i],
                                     <<TextSection>>)] :
              tables \in [1..n -> SymbolTables] } : n \in 1..MaxObjects }

SelectLines ==
    { <<>>, <<"help">>, <<"section">>, <<"dump">>,
      <<"obj">>, <<"obj", "none">>, <<"obj", "a.o">>, <<"obj", "b.o">>, <<"obj", "zz.o">>,
      <<"reloc", "baz">>, <<"reloc", "bar">>,
      <<"dump", "bar">>, <<"dump", "qux">>, <<"dump", "baz">> }
    \cup { <<"dump", "baz", idx>> : idx \in {"0", "1", "2", "x"} }

InitSelect == InitSession(SelectLists, {FALSE}, {"lowest"}, SelectLines)

SpecSelect == InitSelect /\ [][NextSession]_vars

\* the occurrences of a name that are in the current object
InCurrent(occurrences) ==
    { i \in 1..Len(occurrences) :
        /\ explorer.current_obj_idx.some
        /\ occurrences[i].obj_idx = explorer.current_obj_idx.value }

\* C7: a dump or reloc of a name that occurs once resolves to that
\* occurrence; a name that occurs several times resolves, with no error of
\* ambiguity, to its one occurrence in the current object when `obj <label>`
\* has set a current object that holds exactly one of them.  `obj <label>`
\* makes the first object of that label the current one.
C7_SelectByObject ==
    /\ (/\ ld_pc \in {"session", "exited"} /\ ss_last # <<>>
        /\ Len(ss_last.line) >= 2 /\ ss_last.line[1] \in {"dump", "reloc"}
        /\ ss_last.line[2] \in DOMAIN explorer.symbol_map.positions) =>
          LET occurrences == explorer.symbol_map.positions[ss_last.line[2]]
          IN  /\ Len(occurrences) = 1 =>
                    /\ ss_last.pos = Some(occurrences[1])
                    /\ ss_last.result # Err("duplicate symbol")
              /\ (Len(occurrences) > 1 /\ Cardinality(InCurrent(occurrences)) = 1) =>
                    /\ \E i \in InCurrent(occurrences) : ss_last.pos = Some(occurrences[i])
                    /\ ss_last.result # Err("duplicate symbol")
    /\ (/\ ld_pc \in {"session", "exited"} /\ ss_last # <<>>
        /\ Len(ss_last.line) = 2 /\ ss_last.line[1] = "obj" /\ ss_last.line[2] # "none") =>
          LET named == { i \in 1..Len(list) : list[i].name = ss_last.line[2] }
          IN  IF named = {} THEN ss_last.result = Err("not found object")
              ELSE /\ ss_last.result.ok
                   /\ explorer.current_obj_idx = Some(Min(named))

\* C7 witness: "baz" is in a.o and in b.o, `obj b.o` was typed, and
\* `dump baz` printed the one of b.o
C7_Witness ==
    /\ ld_pc = "session" /\ ss_last # <<>>
    /\ Len(list) = 2
    /\ "baz" \in DOMAIN explorer.symbol_map.positions
    /\ Len(explorer.symbol_map.positions["baz"]) = 2
    /\ explorer.current_obj_idx = Some(2)
    /\ ss_last.line = <<"dump", "baz">>
    /\ ss_last.result.ok
    /\ ss_last.pos = Some([obj_idx |-> 2, sym_idx |-> 1])
    /\ ss_last.out[1].obj = "b.o"

(***************************************************************************)
(* Sessions over one object whose symbols' extents are resolved            *)
(***************************************************************************)
\* the addresses at which the second section may begin: right after the
\* first, after a gap, and at the top of the address space
DataBases == {4, 6, U64Max - 1}

ExtentSections(base) ==
    <<Section("__text", 0, 4, "Text", "none", <<0, 1, 0, 1>>, <<>>),
      Section("__data", base, 2, "Data", "none", <<1, 0>>, <<>>)>>

\* the symbol tables of an object of the format: "f" in the first section,
\* then maybe "g" in either section, then maybe an undefined symbol or one
\* whose section the object does not have.  A Mach-O symbol stores no size.
ExtentTables(format, base) ==
    LET stored == IF format = "MachO" THEN 0 ELSE 1
        first == { <<Sym("f", a, stored, InSection(1), TRUE)>> : a \in {0, 2} }
        second == { <<>> }
                  \cup { <<Sym("g", a, stored, InSection(1), FALSE)>> : a \in {0, 2, 3} }
                  \cup { <<Sym("g", a, stored, InSection(2), FALSE)>> : a \in {base, base + 1} }
        third == { <<>>, <<Sym("u", 0, 0, Undefined, TRUE)>>,
                   <<Sym("w", 9, stored, InSection(3), TRUE)>> }
    IN  { f \o g \o u : f \in first, g \in second, u \in third }

ExtentLists ==
    { <<Object("m.o", "X86_64", "MachO", table, ExtentSections(base))>> :
        <<base, table>> \in UNION { { <<b, t>> : t \in ExtentTables("MachO", b) } :
                                       b \in DataBases } }
    \cup { <<Object("m.o", "X86_64", "Elf", table, ExtentSections(4))>> :
            table \in ExtentTables("Elf", 4) }

ExtentLines ==
    { <<>>, <<"help">>, <<"section">>, <<"obj", "m.o">>,
      <<"dump", "f">>, <<"dump", "g">>, <<"dump", "u">>, <<"dump", "w">>,
      <<"reloc", "f">> }

InitExtent == InitSession(ExtentLists, BOOLEAN, {"lowest", "highest"}, ExtentLines)

SpecExtent == InitExtent /\ [][NextSession]_vars

\* C2: the size index resolved for a symbol S.  Mach-O: the address of the
\* next symbol of the object's address-sorted table minus S.address, but
\* (section address + section size) - S.address when S is the last symbol
\* of its own section.  Any other format: the stored size.  (Where several
\* symbols have S's address, S may stand at any of their places in the table.)
C2_ResolvedSize ==
    (ss_last # <<>> /\ ss_last.sym.some) =>
        LET sym == ss_last.sym.value
            obj == list[sym.pos.obj_idx]
            stored == obj.symbols[sym.pos.sym_idx]
            table == symbol_map(obj)
            places == { i \in 1..Len(table) : table[i].address = stored.address }
            LastOfSection(i) ==
                \A j \in (i + 1)..Len(table) : table[j].section # stored.section
            section == obj.sections[sym.section_idx]
        IN  IF explorer.format # "MachO" THEN sym.size = stored.size
            ELSE section_by_index(obj, sym.section_idx).ok =>
                    \E i \in places :
                        sym.size = IF LastOfSection(i)
                                   THEN section.address + section.size - stored.address
                                   ELSE table[i + 1].address - stored.address

(***************************************************************************)
(* Sessions over one object whose section has relocations                  *)
(***************************************************************************)
MaxRelocs == 2

\* the (offset, target) of the relocations a section may have; the last
\* two have a target reloc does not support, and one exec cannot print
RelocUniverse ==
    { <<0, TargetSymbol(1)>>, <<1, TargetSymbol(1)>>, <<1, TargetSection(1)>>,
      <<2, TargetSection(1)>>, <<U64Max, TargetSymbol(1)>>,
      <<1, TargetAbsolute>>, <<2, TargetSymbol(7)>> }

\* the relocation tables of up to MaxRelocs entries, in the order of the
\* file; the addend of an entry is its place in the file
RelocTables ==
    UNION { { [i \in 1..n |-> Reloc(entries[i][1], entries[i][2], i)] :
              entries \in [1..n -> RelocUniverse] } : n \in 0..MaxRelocs }

RelocLists ==
    { <<Object("r.o", "X86_64", "Elf",
               <<Sym("f", bas[2], bas[3], InSection(1), TRUE)>>,
               <<Section(".text", bas[1], 4, "Text", "none", <<0, 1, 0, 1>>, table)>>)>> :
        bas \in {0, 1} \X {0, 1, 2} \X {0, 2, U64Max}, table \in RelocTables }

RelocLines ==
    { <<>>, <<"help">>, <<"section">>, <<"obj", "r.o">>, <<"dump", "f">>, <<"reloc", "f">> }

InitReloc == InitSession(RelocLists, BOOLEAN, {"lowest"}, RelocLines)

SpecReloc == InitReloc /\ [][NextSession]_vars

\* C3: the list Explorer::reloc returns for a symbol at the section-relative
\* offset o with the size s is the relocations of the section whose offset
\* is in [o, o + s), each once, in ascending order of offset.
C3_RelocRange ==
    (/\ ss_last # <<>> /\ ss_last.line # <<>> /\ ss_last.line[1] = "reloc"
     /\ ss_last.value.some
     /\ ss_last.sym.value.address >=
            list[ss_last.sym.value.pos.obj_idx].sections[ss_last.sym.value.section_idx].address)
    =>  LET sym == ss_last.sym.value
            section == list[sym.pos.obj_idx].sections[sym.section_idx]
            o == sym.address - section.address
            inside == { i \in 1..Len(section.relocations) :
                          /\ o <= section.relocations[i].offset
                          /\ section.relocations[i].offset < o + sym.size }
            returned == ss_last.value.value
        IN  /\ Len(returned) = Cardinality(inside)
            /\ { returned[i] : i \in 1..Len(returned) }
                  = { section.relocations[i] : i \in inside }
            /\ \A i \in 1..(Len(returned) - 1) : returned[i].offset <= returned[i + 1].offset

(***************************************************************************)
(* Sessions over objects with compressed sections                          *)
(***************************************************************************)
\* the sections of an object: one stored as it is, one compressed, one
\* compressed whose stored bytes are corrupt
DumpSections(stored) ==
    <<Section(".text", 0, 3, "Text", "none", <<0, 1, 1>>, <<>>),
      Section(".debug_info", 0, 4, "Debug", "zlib", stored, <<>>),
      Section(".debug_str", 0, 2, "Debug", "corrupt", <<1>>, <<>>)>>

\* a.o with "p" anywhere and "q" in a compressed section, b.o with "r" in
\* its compressed section, whose bytes are not those of a.o's
DumpLists ==
    { <<Object("a.o", "X86_64", "Elf",
               <<Sym("p", p[2], p[3], InSection(p[1]), TRUE),
                 Sym("q", q[2], 1, InSection(q[1]), FALSE)>>,
               DumpSections(<<1, 0>>)),
        Object("b.o", "X86_64", "Elf",
               <<Sym("r", 1, 2, InSection(2), TRUE)>>,
               DumpSections(<<0, 1>>))>> :
        p \in {1, 2, 3} \X {0, 2} \X {1, 3}, q \in {2, 3} \X {0, 3} }

DumpLines ==
    { <<>>, <<"help">>, <<"section">>, <<"obj", "a.o">>,
      <<"dump", "p">>, <<"dump", "q">>, <<"dump", "r">>, <<"reloc", "p">> }

InitDump == InitSession(DumpLists, {FALSE}, {"lowest"}, DumpLines)

SpecDump == InitDump /\ [][NextSession]_vars

\* every dump that returned bytes returned the bytes the first dump of the
\* same symbol returned
SameBytesAsFirst ==
    (/\ ss_last # <<>> /\ ss_last.line # <<>> /\ ss_last.line[1] = "dump"
     /\ ss_last.value.some) =>
        LET at == <<ss_last.pos.value.obj_idx, ss_last.pos.value.sym_idx>>
        IN  at \in DOMAIN dumped /\ ss_last.value.value.data = dumped[at]

\* C4 as stated: the decompression of a section runs at most once in a
\* session, and a repeated dump of a symbol returns the bytes of the first
C4_DecompressOnce ==
    /\ \A key \in DOMAIN decompressions : decompressions[key].calls <= 1
    /\ SameBytesAsFirst

\* C4, amended: a section is decompressed successfully at most once in a
\* session, and never again after that; only a decompression that failed
\* is run again, by every later dump of a symbol of that section.  A
\* repeated dump of a symbol returns the bytes of the first.
C4_DecompressedOnce ==
    /\ \A key \in DOMAIN decompressions :
          /\ decompressions[key].done <= 1
          /\ decompressions[key].done = 1 => decompressions[key].calls = 1
          /\ decompressions[key].done = 1 <=> key \in DOMAIN cache.decompress_sections
    /\ \A key \in DOMAIN cache.decompress_sections :
          key \in DOMAIN decompressions /\ decompressions[key].done = 1
    /\ SameBytesAsFirst

\* C4 witness: "p" and "q" of a.o's compressed section were both dumped,
\* the second from the cache, and the section was decompressed once
C4_Witness ==
    /\ list[1].symbols[1].section = InSection(2)
    /\ list[1].symbols[2].section = InSection(2)
    /\ <<1, 1>> \in DOMAIN dumped /\ <<1, 2>> \in DOMAIN dumped
    /\ <<1, 2>> \in DOMAIN decompressions
    /\ decompressions[<<1, 2>>] = [calls |-> 1, done |-> 1]
    /\ ss_last.value.some /\ ss_last.value.value.life = "Left"

\* C4 witness of the failed decompression: two dumps of a symbol of the
\* corrupt section ran it twice
C4_WitnessCorrupt ==
    /\ <<1, 3>> \in DOMAIN decompressions
    /\ decompressions[<<1, 3>>] = [calls |-> 2, done |-> 0]
    /\ ~ss_last.result.ok

(***************************************************************************)
(* Explorer::build: the error of a mismatch, and the positional index      *)
(***************************************************************************)
\* C11: when two loaded objects disagree on architecture or on format, the
\* error of the load reports the name of the first object and the name of
\* the mismatching one.
C11_NamesBothObjects ==
    (ld_pc = "failed" /\ ld_error.kind \in {"inconsistent architecture", "inconsistent format"})
    =>  LET mismatching ==
                IF ld_error.kind = "inconsistent architecture"
                THEN list[Min(ArchMismatch(list))].name
                ELSE list[Min(FormatMismatch(list))].name
            reported == { ld_error.what[i] : i \in 1..Len(ld_error.what) }
        IN  list[1].name \in reported /\ mismatching \in reported

\* the occurrences filed under a name, as a set
Occurrences(name) ==
    { explorer.symbol_map.positions[name][i] :
        i \in 1..Len(explorer.symbol_map.positions[name]) }

\* every symbol position of the loaded objects
AllPositions ==
    { pos \in [obj_idx : 1..Len(list), sym_idx : 1..3] :
        pos.sym_idx <= Len(list[pos.obj_idx].symbols) }

\* each occurrence list is in the order of the scan, without repetition
InScanOrder ==
    \A name \in DOMAIN explorer.symbol_map.positions :
        LET occ == explorer.symbol_map.positions[name]
        IN  /\ occ # <<>>
            /\ \A i \in 1..(Len(occ) - 1) :
                  \/ occ[i].obj_idx < occ[i + 1].obj_idx
                  \/ /\ occ[i].obj_idx = occ[i + 1].obj_idx
                     /\ occ[i].sym_idx < occ[i + 1].sym_idx

\* C12 as stated: the index holds (object, symbol) under the name n iff the
\* symbol is a defined symbol of the object with the stored name n;
\* undefined symbols are not recorded; each occurrence is there once, in
\* the order of the scan.
C12_DefinedSymbolsOnly ==
    ld_pc = "session" =>
        /\ \A pos \in AllPositions :
              LET sym == list[pos.obj_idx].symbols[pos.sym_idx]
              IN  \A name \in DOMAIN explorer.symbol_map.positions \cup {sym.name} :
                      (name \in DOMAIN explorer.symbol_map.positions
                       /\ pos \in Occurrences(name))
                      <=> (sym.name = name /\ sym.section.kind # "Undefined")
        /\ InScanOrder

\* C12, amended: the index holds (object, symbol) under the name n iff the
\* symbol, defined or not, is a symbol of the object with the stored name
\* n; each occurrence is there once, in the order of the scan.
C12_EverySymbol ==
    ld_pc = "session" =>
        /\ \A pos \in AllPositions :
              LET sym == list[pos.obj_idx].symbols[pos.sym_idx]
              IN  \A name \in DOMAIN explorer.symbol_map.positions \cup {sym.name} :
                      (name \in DOMAIN explorer.symbol_map.positions
                       /\ pos \in Occurrences(name))
                      <=> sym.name = name
        /\ \A name \in DOMAIN explorer.symbol_map.positions :
              Occurrences(name) \subseteq AllPositions
        /\ InScanOrder

\* C12 witness: und.o and a.o are loaded; "main" is filed three times in
\* the order of the scan, and the undefined "ext" is filed too
C12_Witness ==
    /\ ld_pc = "session"
    /\ Len(list) = 2 /\ list[1].name = "und.o" /\ list[2].name = "a.o"
    /\ explorer.symbol_map.keys = <<"main", "ext">>
    /\ explorer.symbol_map.positions["main"]
          = <<[obj_idx |-> 1, sym_idx |-> 1], [obj_idx |-> 1, sym_idx |-> 3],
              [obj_idx |-> 2, sym_idx |-> 1]>>
    /\ explorer.symbol_map.positions["ext"] = <<[obj_idx |-> 1, sym_idx |-> 2]>>

(***************************************************************************)
(* The command loop: what a failing command leaves behind                  *)
(***************************************************************************)
\* the command just executed failed
CommandFailed == ss_last' # <<>> /\ ~ss_last'.result.ok

\* C13: a failing command is fatal to that command only: the session keeps
\* reading, the current-object filter and the positional index are what
\* they were before it, and only the end of the input (end-of-input, an
\* interrupt, or a terminal that cannot be read any more) ends the session.
C13_FatalToTheCommandOnly ==
    [][ld_pc = "session" =>
          /\ ld_pc' \in {"session", "exited", "read error"}
          /\ ld_pc' # "session" => UNCHANGED <<explorer, cache, ss_last>>
          /\ CommandFailed => explorer' = explorer]_vars

\* the failures through an error value leave the session reading, and
\* the filter and the index as they were
C13_ErrorsAreLocal ==
    [][(ld_pc = "session" /\ CommandFailed /\ ss_last'.result.error # "panic")
       => ld_pc' \in {"session", "exited", "read error"} /\ explorer' = explorer]_vars

\* a command that failed while an object was current
C13_WitnessFailed ==
    /\ ld_pc = "session"
    /\ ss_last # <<>> /\ ~ss_last.result.ok
    /\ explorer.current_obj_idx.some

(***************************************************************************)
(* The arithmetic of Explorer::reloc on addresses and sizes                *)
(***************************************************************************)
\* the last command was `reloc` and it resolved its name to a position
RelocOfPosition ==
    /\ ss_last # <<>> /\ ss_last.line # <<>> /\ ss_last.line[1] = "reloc"
    /\ ss_last.pos.some

\* the symbol address minus the section base, or the offset plus the size,
\* of the symbol the last command resolved does not fit 64 unsigned bits
RelocRangeOverflows ==
    LET pos == ss_last.pos.value
        stored == list[pos.obj_idx].symbols[pos.sym_idx]
        section == list[pos.obj_idx].sections[stored.section.index]
    IN  \/ stored.address < section.address
        \/ (stored.address - section.address) + stored.size > U64Max

\* C14: a computation of the relocation range of a symbol (symbol address
\* minus section base, offset plus size) that would underflow or overflow
\* 64-bit unsigned arithmetic produces an explicit error for the command,
\* never a wrapped value (and never a panic).
C14_ExplicitRangeError ==
    (RelocOfPosition /\ RelocRangeOverflows)
    => /\ ~ss_last.result.ok
       /\ ss_last.result.error # "panic"
       /\ ld_pc # "panicked"

\* the wrapped range was used: `reloc f` returned a list although the end
\* of the range of f is beyond the last address
C14_WrappedValue ==
    /\ RelocOfPosition /\ RelocRangeOverflows
    /\ ~overflow_checks
    /\ ss_last.result.ok

(***************************************************************************)
(* The flattened list of the loader                                        *)
(***************************************************************************)
\* the expansion of one path: the results of its members in stored order,
\* or the one error of the path itself
Expansion(path) ==
    IF ~Dispatch(path).ok THEN <<Dispatch(path)>>
    ELSE [i \in 1..Len(Dispatch(path).value.items) |->
             ParseObject(Dispatch(path).value.items[i].name,
                         Dispatch(path).value.items[i].bytes)]

\* the expansions of the paths from the given one on, in path order
RECURSIVE Flattened(_, _)
Flattened(paths, from) ==
    IF from > Len(paths) THEN <<>>
    ELSE Expansion(paths[from]) \o Flattened(paths, from + 1)

\* the errors of flattening, as against those of open, mmap and build
FlattenErrors == {"parse", "not utf8 name", "no support extension"}

\* C15: the flattened list is the concatenation, in path order, of each
\* path's expansion; the first error met makes the whole load return that
\* error, and then no list, not even the objects parsed before it, reaches
\* the session.
C15_FailFast ==
    \E results \in {Flattened(objects, 1)} :
    \E failing \in {{ i \in 1..Len(results) : ~results[i].ok }} :
        /\ ld_pc \in {"explorer", "session"}
           => failing = {} /\ list = [i \in 1..Len(results) |-> results[i].value]
        /\ (ld_pc = "failed" /\ ld_error.kind \in FlattenErrors)
           => failing # {} /\ ld_error = results[Min(failing)].error
        /\ (failing # {} /\ ld_pc \notin {"open", "mmap", "iter"})
           => ld_pc = "failed" /\ ld_error.kind \in FlattenErrors \cup {"open", "mmap"}
        /\ ld_pc = "failed" => explorer = <<>>
        /\ ld_pc = "iter" => \A i \in 1..Len(list) : results[i].ok /\ list[i] = results[i].value

\* C15 witness: a.o and then an archive whose second member does not
\* parse: the load has failed with that error after two objects were parsed
C15_Witness ==
    /\ ld_pc = "failed"
    /\ Len(objects) = 2
    /\ FileName(objects[1].file_name) = "a.o" /\ FileName(objects[2].file_name) = "cut.a"
    /\ Len(list) = 2
    /\ ld_error = [kind |-> "parse", what |-> "m2.o"]
    /\ explorer = <<>>

(***************************************************************************)
(* The search command and IteratorExt::fast_for_each                       *)
(***************************************************************************)
\* lower_bound > 1024 * 1024, with the threshold scaled down to the model
Threshold == 2

\* the worker threads of the pool
MaxWorkers == 2

\* a plausible slip: the threshold itself fans out
FansOut_AtThreshold(lower_bound) == lower_bound >= Threshold

\* fast_for_each: lower_bound > 1024 * 1024
FansOut(lower_bound) == lower_bound > Threshold

\* the bytes of the names and keywords of the searches
Letters(name) ==
    CASE name = "foo" -> <<"f", "o", "o">>
      [] name = "bar" -> <<"b", "a", "r">>
      [] name = "baz" -> <<"b", "a", "z">>
      [] name = "quux" -> <<"q", "u", "u", "x">>
      [] name = "_ZN3bar17hfedcba9876543210E" ->
            <<"_", "Z", "N", "3", "b", "a", "r", "1", "7", "h", "f", "e", "d", "c", "b",
              "a", "9", "8", "7", "6", "5", "4", "3", "2", "1", "0", "E">>
      [] name = "bar::hfedcba9876543210" ->
            <<"b", "a", "r", ":", ":", "h", "f", "e", "d", "c", "b", "a", "9", "8", "7",
              "6", "5", "4", "3", "2", "1", "0">>
      [] name = "_ZN3foo17h0123456789abcdefE" ->
            <<"_", "Z", "N", "3", "f", "o", "o", "1", "7", "h", "0", "1", "2", "3", "4",
              "5", "6", "7", "8", "9", "a", "b", "c", "d", "e", "f", "E">>
      [] name = "foo::h0123456789abcdef" ->
            <<"f", "o", "o", ":", ":", "h", "0", "1", "2", "3", "4", "5", "6", "7", "8",
              "9", "a", "b", "c", "d", "e", "f">>
      [] name = "foo2" -> <<"f", "o", "o", "2">>
      [] name = "ba" -> <<"b", "a">>
      [] name = "oo" -> <<"o", "o">>
      [] name = "E" -> <<"E">>
      [] name = "17h" -> <<"1", "7", "h">>
      [] OTHER -> <<name>>

\* ac.is_match(name): one of the keywords occurs in the name
is_match(keywords, name) ==
    \E k \in 1..Len(keywords) :
        \E i \in 0..(Len(Letters(name)) - Len(Letters(keywords[k]))) :
            SubSeq(Letters(name), i + 1, i + Len(Letters(keywords[k]))) = Letters(keywords[k])

\* mangled_name.ends_with(w)
ends_with(name, w) ==
    /\ Len(Letters(w)) <= Len(Letters(name))
    /\ SubSeq(Letters(name), Len(Letters(name)) - Len(Letters(w)) + 1, Len(Letters(name)))
          = Letters(w)

\* the test of the closure of search on one entry of the index
Matches(keywords, mangled_name) ==
    \/ is_match(keywords, DemangleDisplay(mangled_name))
    \/ \E k \in 1..Len(keywords) : ends_with(mangled_name, keywords[k])

\* the lines the closure prints for one entry of the index
ItemLines(keywords, mangled_name) ==
    IF ~Matches(keywords, mangled_name) THEN <<>>
    ELSE [i \in 1..Len(explorer.symbol_map.positions[mangled_name]) |->
             LET pos == explorer.symbol_map.positions[mangled_name][i]
             IN  [address |-> list[pos.obj_idx].symbols[pos.sym_idx].address,
                  kind |-> symbol_kind(pos),
                  name |-> mangled_name,
                  obj |-> list[pos.obj_idx].name]]

\* try_for_each(f) over symbol_map.iter(): the entries in the order of the index
RECURSIVE try_for_each(_, _)
try_for_each(keywords, from) ==
    IF from > Len(explorer.symbol_map.keys) THEN <<>>
    ELSE ItemLines(keywords, explorer.symbol_map.keys[from]) \o try_for_each(keywords, from + 1)

\* what the steps of a search leave alone
sr_others == <<explorer, cache, decompressions, dumped, overflow_checks, usize_bits,
               cm_vars, df_vars, rg_vars, sc_vars, objects, ld_idx, subiter, ld_parsed, list,
               ld_error, binary_search_pick, ss_lines>>

\* Some("search"): no keyword, the sequential scan, or the hand-over to
\* the pool
ExecSearch ==
    /\ ld_pc = "session"
    /\ \E line \in ss_lines :
        /\ line # <<>> /\ line[1] = "search"
        /\ IF Len(line) = 1
           THEN /\ Finish(line, cache, Err("need keyword"), None, None, None, <<>>)
                /\ UNCHANGED search
           ELSE IF FansOut(Len(explorer.symbol_map.keys))
           THEN /\ ld_pc' = "searching"
                /\ search' = [mode |-> "par", line |-> line, next |-> 0,
                              work |-> [w \in 1..MaxWorkers |-> None],
                              lock |-> 0, out |-> <<>>]
                /\ UNCHANGED <<cache, ss_last>>
           ELSE /\ Finish(line, cache, Ok(<<>>), None, None, Some("sequential"),
                          try_for_each(Tail(line), 1))
                /\ UNCHANGED search
    /\ UNCHANGED <<explorer, decompressions, dumped, overflow_checks, usize_bits,
                   cm_vars, df_vars, rg_vars, sc_vars, objects, ld_idx, subiter, ld_parsed, list,
                   ld_error, binary_search_pick, ss_lines>>

\* the lines of an entry of the index under the keywords of the search
EntryLines(item) == ItemLines(Tail(search.line), explorer.symbol_map.keys[item])

\* par_bridge: a worker without an entry takes the next one of the shared
\* iterator and calls the closure on it; an entry that does not match is
\* done at once
SearchTake ==
    /\ ld_pc = "searching"
    /\ \E w \in 1..MaxWorkers :
        /\ ~search.work[w].some
        /\ search.next < Len(explorer.symbol_map.keys)
        /\ search' = [search EXCEPT
                        !.next = @ + 1,
                        !.work[w] = IF EntryLines(search.next + 1) = <<>> THEN None
                                    ELSE Some([item |-> search.next + 1, at |-> 1,
                                               wrote |-> FALSE])]
    /\ UNCHANGED <<ld_pc, ss_last, sr_others>>

\* a plausible slip: the output is written without its lock
StdoutFree_Unlocked(lock) == TRUE

\* println!: the lock of stdout is free
StdoutFree(lock) == lock = 0

\* println!: the worker takes the lock of stdout and writes the text of
\* its next line
SearchWrite ==
    /\ ld_pc = "searching"
    /\ \E w \in 1..MaxWorkers :
        /\ search.work[w].some
        /\ ~search.work[w].value.wrote
        /\ StdoutFree(search.lock)
        /\ search' = [search EXCEPT
                        !.lock = w,
                        !.work[w] = Some([@.value EXCEPT !.wrote = TRUE]),
                        !.out = Append(@, [line |-> EntryLines(search.work[w].value.item)
                                                        [search.work[w].value.at],
                                           part |-> "text"])]
    /\ UNCHANGED <<ld_pc, ss_last, sr_others>>

\* println!: the worker that wrote the text ends the line and gives the
\* lock back; after the last line of its entry the closure returns
SearchNewline ==
    /\ ld_pc = "searching"
    /\ \E w \in 1..MaxWorkers :
        /\ search.work[w].some
        /\ search.work[w].value.wrote
        /\ search' = [search EXCEPT
                        !.lock = 0,
                        !.work[w] =
                            IF search.work[w].value.at
                                 = Len(EntryLines(search.work[w].value.item))
                            THEN None
                            ELSE Some([@.value EXCEPT !.wrote = FALSE, !.at = @ + 1]),
                        !.out = Append(@, [line |-> EntryLines(search.work[w].value.item)
                                                        [search.work[w].value.at],
                                           part |-> "newline"])]
    /\ UNCHANGED <<ld_pc, ss_last, sr_others>>

\* the lines of the output, in the order their text was written
RECURSIVE TextLines(_)
TextLines(out) ==
    IF out = <<>> THEN <<>>
    ELSE (IF Head(out).part = "text" THEN <<Head(out).line>> ELSE <<>>)
         \o TextLines(Tail(out))

\* try_for_each of the pool returns: the iterator is exhausted and every
\* closure has returned
SearchJoin ==
    /\ ld_pc = "searching"
    /\ search.next = Len(explorer.symbol_map.keys)
    /\ \A w \in 1..MaxWorkers : ~search.work[w].some
    /\ ld_pc' = "session"
    /\ ss_last' = [line |-> search.line, result |-> Ok(<<>>), pos |-> None, sym |-> None,
                   value |-> Some("parallel"), out |-> search.out]
    /\ search' = IdleSearch
    /\ UNCHANGED sr_others

\* the session in which searches are run
NextSearch ==
    \/ ExecObj \/ ExecSection \/ ExecOther \/ ReadEof \/ ReadError
    \/ ExecSearch \/ SearchTake \/ SearchWrite \/ SearchNewline \/ SearchJoin

\* the names an index may hold; the second is a mangled Rust name
SearchNames == <<"foo", "_ZN3bar17hfedcba9876543210E", "baz", "quux", "bar">>

\* one object with the first n names, "foo" twice, and another object
\* that has "foo" too
SearchLists ==
    { <<Object("a.o", "X86_64", "Elf",
               [i \in 1..(n + 1) |->
                   IF i <= n THEN Sym(SearchNames[i], i, 1, InSection(1), i # 3)
                   ELSE Sym("foo", 0, 1, Undefined, TRUE)],
               <<TextSection>>)>>
      \o tail :
        n \in (Threshold - 1)..(Threshold + 1),
        tail \in { <<>>,
                   <<Object("b.o", "X86_64", "Elf", <<Sym("foo", 0, 1, InSection(1), FALSE)>>,
                            <<TextSection>>)>> } }

SearchLines ==
    { <<>>, <<"help">>, <<"section">>, <<"obj", "a.o">>, <<"search">>,
      <<"search", "oo">>, <<"search", "17h">>, <<"search", "ba", "E">>,
      <<"search", "E", "foo">> }

InitSearch == InitSession(SearchLists, {FALSE}, {"lowest"}, SearchLines)

SpecSearch == InitSearch /\ [][NextSearch]_vars

\* how often a line is in a sequence of lines
Count(lines, x) == Cardinality({ i \in 1..Len(lines) : lines[i] = x })

\* the same lines, each as often, whatever the order
SameMultiset(a, b) ==
    /\ Len(a) = Len(b)
    /\ \A i \in 1..Len(a) : Count(a, a[i]) = Count(b, a[i])

\* every piece of text in the output is followed by its own end of line
\* before anything else is written
WholeLines(out) ==
    \A i \in 1..Len(out) :
        IF out[i].part = "text"
        THEN i = Len(out) \/ out[i + 1] = [line |-> out[i].line, part |-> "newline"]
        ELSE i > 1 /\ out[i - 1] = [line |-> out[i].line, part |-> "text"]

\* the last command was a search that ran to its end
Searched(how) ==
    /\ ss_last # <<>> /\ ss_last.line # <<>> /\ ss_last.line[1] = "search"
    /\ ss_last.result.ok
    /\ ss_last.value = Some(how)

\* C16: the search fans out to the workers only when the index holds more
\* names than the threshold and runs sequentially otherwise; when it fans
\* out, each line is written whole, the multiset of the lines is that of
\* the sequential run, and the workers change nothing but the output.
C16_ParallelSearch ==
    /\ [](/\ ld_pc = "searching"
             => /\ Len(explorer.symbol_map.keys) > Threshold
                /\ WholeLines(search.out)
          /\ Searched("sequential")
             => /\ Len(explorer.symbol_map.keys) <= Threshold
                /\ ss_last.out = try_for_each(Tail(ss_last.line), 1)
          /\ Searched("parallel")
             => /\ Len(explorer.symbol_map.keys) > Threshold
                /\ WholeLines(ss_last.out)
                /\ SameMultiset(TextLines(ss_last.out), try_for_each(Tail(ss_last.line), 1)))
    /\ [][ld_pc = "searching"
          => UNCHANGED <<explorer, cache, list, decompressions, dumped, ss_lines>>]_vars

\* C16 witness: a search over more names than the threshold has ended;
\* the workers wrote the lines of the sequential run in another order
C16_Witness ==
    /\ Searched("parallel")
    /\ Len(TextLines(ss_last.out)) >= 3
    /\ TextLines(ss_last.out) # try_for_each(Tail(ss_last.line), 1)

\* a search over no more names than the threshold has ended
C16_WitnessSequential ==
    /\ Searched("sequential")
    /\ Len(explorer.symbol_map.keys) = Threshold
    /\ Len(ss_last.out) >= 2

(***************************************************************************)
(* Sessions over objects with several sections that have relocations       *)
(***************************************************************************)
\* the relocation tables of a section, in the order of the file: none,
\* one out of order, one with two entries at one offset
CacheTables ==
    { <<>>,
      <<Reloc(2, TargetSymbol(1), 1), Reloc(0, TargetSection(1), 2)>>,
      <<Reloc(1, TargetSection(2), 1), Reloc(1, TargetSymbol(2), 2),
        Reloc(0, TargetSymbol(1), 3)>> }

CacheLists ==
    { <<Object("r.o", "X86_64", "Elf",
               <<Sym("f", 0, 2, InSection(1), TRUE), Sym("g", 4, 2, InSection(2), TRUE)>>,
               <<Section(".text", 0, 4, "Text", "none", <<0, 1, 0, 1>>, text),
                 Section(".data", 4, 2, "Data", "none", <<2, 3>>, data_relocs)>>)>>
      \o tail :
        text \in CacheTables, data_relocs \in CacheTables,
        tail \in { <<>>,
                   <<Object("s.o", "X86_64", "Elf",
                            <<Sym("k", 1, 1, InSection(1), FALSE)>>,
                            <<Section(".text", 0, 2, "Text", "none", <<0, 1>>,
                                      <<Reloc(1, TargetSymbol(1), 1),
                                        Reloc(0, TargetSymbol(1), 2)>>)>>)>> } }

CacheLines ==
    { <<>>, <<"help">>, <<"section">>, <<"obj", "r.o">>, <<"dump", "f">>,
      <<"reloc", "f">>, <<"reloc", "g">>, <<"reloc", "k">>, <<"reloc", "zz">> }

InitCache == InitSession(CacheLists, {FALSE}, {"lowest"}, CacheLines)

SpecCache == InitCache /\ [][NextSession]_vars

\* the (object, section) pairs that have a table in the relocation cache
CachedTables(c) ==
    { key \in (1..Len(c.reloc_list)) \X (1..2) : key[2] \in DOMAIN c.reloc_list[key[1]] }

\* the section of the symbol the last command resolved
QueriedTable(last) ==
    <<last.pos.value.obj_idx,
      list[last.pos.value.obj_idx].symbols[last.pos.value.sym_idx].section.index>>

\* C17: after any sequence of reloc queries the cached table of every
\* queried (object, section) is sorted ascending by offset and holds each
\* relocation of the section exactly once; it is built by the first query
\* of the section, later queries neither append to it nor overwrite it,
\* and a query leaves the tables of the other sections as they were.
C17_RelocTables ==
    /\ [](\A key \in CachedTables(cache) :
             LET table == cache.reloc_list[key[1]][key[2]]
             IN  /\ \A i \in 1..(Len(table) - 1) : table[i].offset <= table[i + 1].offset
                 /\ SameMultiset(table, list[key[1]].sections[key[2]].relocations))
    /\ [][/\ \A key \in CachedTables(cache) :
                /\ key \in CachedTables(cache')
                /\ cache'.reloc_list[key[1]][key[2]] = cache.reloc_list[key[1]][key[2]]
          /\ \A key \in CachedTables(cache') \ CachedTables(cache) :
                /\ ss_last'.line[1] = "reloc"
                /\ ss_last'.pos.some
                /\ key = QueriedTable(ss_last')]_vars

\* C17 witness: .text and .data of r.o were queried, .text again at last;
\* both tables are there, sorted, with the two entries of one offset
C17_Witness ==
    /\ ss_last # <<>> /\ ss_last.line = <<"reloc", "f">> /\ ss_last.result.ok
    /\ CachedTables(cache) = {<<1, 1>>, <<1, 2>>}
    /\ Len(cache.reloc_list[1][1]) = 3
    /\ cache.reloc_list[1][1] # list[1].sections[1].relocations
    /\ Len(cache.reloc_list[1][2]) = 2

(***************************************************************************)
(* collect_map: the option that folds the outlined fragments               *)
(***************************************************************************)
\* the text symbols of the object that have a name
Named(symbols) ==
    { i \in 1..Len(symbols) :
        symbols[i].kind = "Text" /\ symbols[i].name \notin {NameError, ""} }

\* the named text symbols whose demangled name has the prefix of the
\* outlined fragments
Outlined(symbols) ==
    { i \in Named(symbols) : StartsWithOutlined(Demangle(symbols[i].name)) }

\* the sum of the sizes of some of the symbols
RECURSIVE SumSizes(_, _)
SumSizes(symbols, places) ==
    IF places = {} THEN 0
    ELSE LET i == CHOOSE i \in places : TRUE
         IN  symbols[i].size + SumSizes(symbols, places \ {i})

\* the named text symbols with the demangled name `name`
SameName(symbols, name) == { i \in Named(symbols) : Demangle(symbols[i].name) = name }

C18_WitnessOff ==
    /\ cm_pc = "done" /\ ~filter_outlined
    /\ DOMAIN map = {"OUTLINED_FUNCTION_0", "OUTLINED_FUNCTION_1", "foo"}
    /\ map["OUTLINED_FUNCTION_1"][2] = 2

(***************************************************************************)
(* The candidate listing and the index token                               *)
(***************************************************************************)
\* the last command was a dump or reloc of a name with the index i, the
\* name has several candidates under the current object, so that the
\* command without the index prints the listing, and the listing has a
\* row [i]
IndexOfListing ==
    /\ ss_last # <<>> /\ Len(ss_last.line) = 3
    /\ ss_last.line[1] \in {"dump", "reloc"}
    /\ get(ss_last.line[2]).ok
    /\ select(get(ss_last.line[2]).value, None) = Ok(None)
    /\ ParseUsize(ss_last.line[3]).ok
    /\ ParseUsize(ss_last.line[3]).value < Len(print_syms_list(get(ss_last.line[2]).value))

\* the occurrence that the listing of the last command's name shows as [i]
Listed(i) == get(ss_last.line[2]).value[i + 1]

\* C19: the listing and the index agree: the command with the index i,
\* under the same current object, resolves to the occurrence the listing
\* shows as [i], with or without a current object.
C19_ListingIndex ==
    IndexOfListing
    => /\ ss_last.pos.some
       /\ ss_last.pos.value = Listed(ParseUsize(ss_last.line[3]).value)

\* without a current object the listing and the index agree
C19_AgreeWithoutFilter ==
    (IndexOfListing /\ ~explorer.current_obj_idx.some)
    => /\ ss_last.pos.some
       /\ ss_last.pos.value = Listed(ParseUsize(ss_last.line[3]).value)

\* b.o is current and holds two of the three "baz": `dump baz 1` took the
\* second of b.o, which the listing shows as [2]
C19_WitnessShifted ==
    /\ IndexOfListing
    /\ explorer.current_obj_idx.some /\ explorer.current_obj_idx.value = 2
    /\ ss_last.line = <<"dump", "baz", "1">>
    /\ ss_last.pos.some /\ ss_last.pos.value = [obj_idx |-> 2, sym_idx |-> 2]
    /\ Len(get("baz").value) = 3
    /\ Listed(2) = [obj_idx |-> 2, sym_idx |-> 2]

(***************************************************************************)
(* The total of a diff                                                     *)
(***************************************************************************)
\* the sum of the sizes of an aggregated map
RECURSIVE SumOfSizes(_, _)
SumOfSizes(m, names) ==
    IF names = {} THEN 0
    ELSE LET name == CHOOSE name \in names : TRUE
         IN  m[name][2] + SumOfSizes(m, names \ {name})

\* the rows of the records that for_each handed over, in that order
RowsOfRecords == [i \in 1..Len(df_records) |-> Row(df_records[i])]

\* C20: in two-way mode the total is the sum of the sizes of the new map
\* minus the sum of the sizes of the old map, for every pair of maps, with
\* or without the sort; the sort mode writes the rows of the same records,
\* ascending by signed delta.
C20_TotalIsDifference ==
    (df_pc = "exit" /\ ~oneway)
    => /\ change_count = SumOfSizes(DifferNew, DOMAIN DifferNew)
                         - SumOfSizes(DifferOld, DOMAIN DifferOld)
       /\ SameMultiset(stdout, RowsOfRecords)
       /\ sort => \A i \in 1..(Len(stdout) - 1) :
                     stdout[i].diff_size <= stdout[i + 1].diff_size

\* every size of the two maps is below 2^63
SizesFitI64 ==
    /\ \A name \in DOMAIN old_map : old_map[name][2] <= I64Max
    /\ \A name \in DOMAIN new_map : new_map[name][2] <= I64Max

\* the total is the difference of the sums whenever every size fits i64
C20_TotalOfSmallSizes ==
    SizesFitI64 => C20_TotalIsDifference

\* the total of a symbol of 2^63 bytes that appeared is negative
C20_WitnessNegative ==
    /\ df_pc = "exit" /\ ~oneway /\ df_run = "first"
    /\ old_map = EmptyMap
    /\ DOMAIN new_map = {"foo"} /\ new_map["foo"][2] = U64Modulus \div 2
    /\ change_count = I64Min

-----------------------------------------------------------------------------
(* The standalone searcher (main.rs): one pass over the symbols of one     *)
(* object, printing the symbols that match the keywords and their total.   *)

\* the symbols of one run
MaxSearched == 3

\* The symbols of the object's symbol map: kind, raw name, address, size.
\* foo and foo2 are two names of one function.
SearchedUniverse ==
    { [kind |-> "Text", name |-> "foo", address |-> 1, size |-> 2],
      [kind |-> "Text", name |-> "foo2", address |-> 1, size |-> 2],
      [kind |-> "Text", name |-> "quux", address |-> 1, size |-> 1],
      [kind |-> "Text", name |-> "_ZN3bar17hfedcba9876543210E", address |-> 2, size |-> 1],
      [kind |-> "Data", name |-> "baz", address |-> 3, size |-> 1],
      [kind |-> "Text", name |-> "", address |-> 3, size |-> 1],
      [kind |-> "Text", name |-> NameError, address |-> 3, size |-> 1],
      [kind |-> "Text", name |-> "foo", address |-> 4, size |-> U64Max] }

\* symbol_map().symbols(): ascending by address, symbols of one address in
\* either order
SearchedLists ==
    { s \in UNION { [1..n -> SearchedUniverse] : n \in 0..MaxSearched } :
        /\ \A i, j \in 1..Len(s) : i < j => s[i] # s[j]
        /\ \A i \in 1..(Len(s) - 1) : s[i].address <= s[i + 1].address }

\* the keywords of the command line
SearchedKeywords == { <<>>, <<"oo">>, <<"ba", "E">>, <<"quux", "foo">> }

InitSearcher ==
    /\ overflow_checks \in BOOLEAN
    /\ usize_bits = WordBits
    /\ sc_pc = "start"
    /\ sc_symbols \in SearchedLists
    /\ sc_keywords \in SearchedKeywords
    /\ sc_sort \in BOOLEAN
    /\ sc_pos = 0
    /\ symbolset = <<>>
    /\ sc_count = 0
    /\ sc_stdout = <<>>
    /\ IdleMap /\ IdleDiff /\ IdleRange /\ IdleLink /\ IdleSession

\* what the steps of the searcher leave alone
sc_others == <<overflow_checks, usize_bits, cm_vars, df_vars, rg_vars, ld_vars, ss_vars>>

\* symbol.name().filter(|name| !name.is_empty())
HasName(symbol) == symbol.name \notin {"", NameError}

\* the test of Filter::for_each on one symbol
FilterMatches(kws, symbol) ==
    /\ HasName(symbol)
    /\ \/ is_match(kws, DemangleDisplay(symbol.name))
       \/ \E k \in 1..Len(kws) : ends_with(symbol.name, kws[k])

\* the line written for one symbol
SymbolRow(kind, addr, size, name) ==
    [kind |-> kind, addr |-> addr, size |-> size, name |-> name]

\* the line of the total
TotalRow(total) == [total |-> total]

\* Ord for SizeAddr: the sizes, then the addresses
SizeAddrCmp(lhs, rhs) ==
    IF lhs[1] < rhs[1] THEN "Less"
    ELSE IF lhs[1] > rhs[1] THEN "Greater"
    ELSE IF lhs[2] < rhs[2] THEN "Less"
    ELSE IF lhs[2] > rhs[2] THEN "Greater"
    ELSE "Equal"

\* BTreeMap::insert: the entries are kept in the order of the keys; a key
\* that compares equal to the new one stays and its value is replaced
BTreeInsert(entries, key, value) ==
    IF \E i \in 1..Len(entries) : SizeAddrCmp(entries[i].key, key) = "Equal"
    THEN [i \in 1..Len(entries) |->
             IF SizeAddrCmp(entries[i].key, key) = "Equal"
             THEN [key |-> entries[i].key, value |-> value]
             ELSE entries[i]]
    ELSE LET below == SelectSeq(entries, LAMBDA e : SizeAddrCmp(e.key, key) = "Less")
             above == SelectSeq(entries, LAMBDA e : SizeAddrCmp(e.key, key) = "Greater")
         IN  below \o <<[key |-> key, value |-> value]>> \o above

\* count += size overflows u64
CountOverflows(size) == sc_count + size > U64Max

\* main up to the parse of the object: no keyword is an error
SearcherStart ==
    /\ sc_pc = "start"
    /\ IF sc_keywords = <<>>
       THEN sc_pc' = "search keyword is empty" /\ sc_pos' = sc_pos
       ELSE sc_pc' = "scan" /\ sc_pos' = 1
    /\ UNCHANGED <<sc_symbols, sc_keywords, sc_sort, symbolset, sc_count, sc_stdout, sc_others>>

\* one symbol of Filter::for_each, with the closure of the mode
SearcherVisit ==
    /\ sc_pc = "scan"
    /\ sc_pos <= Len(sc_symbols)
    /\ LET symbol == sc_symbols[sc_pos]
           name == DemangleDisplay(symbol.name)
       IN  IF ~FilterMatches(sc_keywords, symbol)
           THEN /\ sc_pos' = sc_pos + 1
                /\ UNCHANGED <<sc_pc, symbolset, sc_count, sc_stdout>>
           ELSE IF sc_sort
           THEN /\ symbolset' = BTreeInsert(symbolset, <<symbol.size, symbol.address>>,
                                            [kind |-> symbol.kind, name |-> name])
                /\ sc_pos' = sc_pos + 1
                /\ UNCHANGED <<sc_pc, sc_count, sc_stdout>>
           ELSE IF overflow_checks /\ CountOverflows(symbol.size)
           THEN /\ sc_pc' = "panicked"
                /\ UNCHANGED <<sc_pos, symbolset, sc_count, sc_stdout>>
           ELSE /\ sc_count' = WrapAdd(sc_count, symbol.size)
                /\ sc_stdout' = Append(sc_stdout,
                                       SymbolRow(symbol.kind, symbol.address, symbol.size, name))
                /\ sc_pos' = sc_pos + 1
                /\ UNCHANGED <<sc_pc, symbolset>>
    /\ UNCHANGED <<sc_symbols, sc_keywords, sc_sort, sc_others>>

\* for_each returns Ok(())
SearcherScanned ==
    /\ sc_pc = "scan"
    /\ sc_pos > Len(sc_symbols)
    /\ sc_pc' = IF sc_sort THEN "print" ELSE "total"
    /\ UNCHANGED <<sc_symbols, sc_keywords, sc_sort, sc_pos, symbolset, sc_count, sc_stdout,
                   sc_others>>

\* one entry of `for (SizeAddr(size, addr), (kind, name)) in symbolset`
SearcherPrint ==
    /\ sc_pc = "print"
    /\ symbolset # <<>>
    /\ LET entry == Head(symbolset)
       IN  IF overflow_checks /\ CountOverflows(entry.key[1])
           THEN /\ sc_pc' = "panicked"
                /\ UNCHANGED <<symbolset, sc_count, sc_stdout>>
           ELSE /\ sc_count' = WrapAdd(sc_count, entry.key[1])
                /\ sc_stdout' = Append(sc_stdout,
                                       SymbolRow(entry.value.kind, entry.key[2], entry.key[1],
                                           entry.value.name))
                /\ symbolset' = Tail(symbolset)
                /\ sc_pc' = sc_pc
    /\ UNCHANGED <<sc_symbols, sc_keywords, sc_sort, sc_pos, sc_others>>

\* the loop over symbolset ends
SearcherPrinted ==
    /\ sc_pc = "print"
    /\ symbolset = <<>>
    /\ sc_pc' = "total"
    /\ UNCHANGED <<sc_symbols, sc_keywords, sc_sort, sc_pos, symbolset, sc_count, sc_stdout,
                   sc_others>>

\* writeln!(&mut stdout, "total:\t\t\t{}", count) and Ok(())
SearcherTotal ==
    /\ sc_pc = "total"
    /\ sc_stdout' = Append(sc_stdout, TotalRow(sc_count))
    /\ sc_pc' = "exit"
    /\ UNCHANGED <<sc_symbols, sc_keywords, sc_sort, sc_pos, symbolset, sc_count, sc_others>>

NextSearcher ==
    \/ SearcherStart
    \/ SearcherVisit
    \/ SearcherScanned
    \/ SearcherPrint
    \/ SearcherPrinted
    \/ SearcherTotal

SpecSearcher == InitSearcher /\ [][NextSearcher]_vars

\* the symbols of the run that match the keywords, in the order of the scan
MatchedSymbols ==
    SelectSeq(sc_symbols, LAMBDA symbol : FilterMatches(sc_keywords, symbol))

\* the line of each matched symbol
MatchedRows ==
    [i \in 1..Len(MatchedSymbols) |->
        SymbolRow(MatchedSymbols[i].kind, MatchedSymbols[i].address, MatchedSymbols[i].size,
            DemangleDisplay(MatchedSymbols[i].name))]

\* the sum of the sizes of the lines, as u64
RECURSIVE SumOfRows(_)
SumOfRows(rows) ==
    IF rows = <<>> THEN 0 ELSE WrapAdd(rows[1].size, SumOfRows(Tail(rows)))

\* the lines written before the line of the total
PrintedRows == SubSeq(sc_stdout, 1, Len(sc_stdout) - 1)

\* the run ended with the line of the total
SearcherExited == sc_pc = "exit" /\ sc_stdout # <<>>

\* the report of a run that ended: every matched symbol once, and their total
ReportsEveryMatch ==
    /\ SameMultiset(PrintedRows, MatchedRows)
    /\ sc_stdout[Len(sc_stdout)] = TotalRow(SumOfRows(MatchedRows))

\* C21: a run of the searcher that ends prints every symbol that matches the
\* keywords exactly once and the total of their sizes, with the sort and
\* without it (so both modes report the same symbols and the same total),
\* and with the sort the lines ascend by size, then address.
C21_SameSymbolsAndTotal ==
    SearcherExited =>
        /\ ReportsEveryMatch
        /\ sc_sort =>
              \A i \in 1..(Len(PrintedRows) - 1) :
                  SizeAddrCmp(<<PrintedRows[i].size, PrintedRows[i].addr>>,
                              <<PrintedRows[i + 1].size, PrintedRows[i + 1].addr>>)
                      # "Greater"

\* without the sort the report is the one of C21, in the order of the scan
C21_UnsortedReportsAll ==
    (SearcherExited /\ ~sc_sort) =>
        /\ PrintedRows = MatchedRows
        /\ ReportsEveryMatch

\* with the sort the lines ascend strictly, every line is the line of a
\* matched symbol, and every matched symbol has a line of its size and
\* address; the total is the total of the lines written
C21_SortedReportsKeys ==
    (SearcherExited /\ sc_sort) =>
        /\ \A i \in 1..(Len(PrintedRows) - 1) :
              SizeAddrCmp(<<PrintedRows[i].size, PrintedRows[i].addr>>,
                          <<PrintedRows[i + 1].size, PrintedRows[i + 1].addr>>) = "Less"
        /\ \A i \in 1..Len(PrintedRows) : Count(MatchedRows, PrintedRows[i]) >= 1
        /\ \A i \in 1..Len(MatchedRows) :
              \E j \in 1..Len(PrintedRows) :
                  /\ PrintedRows[j].size = MatchedRows[i].size
                  /\ PrintedRows[j].addr = MatchedRows[i].addr
        /\ sc_stdout[Len(sc_stdout)] = TotalRow(SumOfRows(PrintedRows))

\* a sorted run ended on two matched names of one function and wrote one line
C21_WitnessAliasLost ==
    /\ SearcherExited /\ sc_sort
    /\ Len(MatchedRows) = 2 /\ Len(PrintedRows) = 1
    /\ MatchedRows[1].size = MatchedRows[2].size
    /\ MatchedRows[1].addr = MatchedRows[2].addr
    /\ sc_stdout[Len(sc_stdout)] = TotalRow(MatchedRows[1].size)

\* an unsorted run ended on the same two names and wrote both lines
C21_WitnessAliasKept ==
    /\ SearcherExited /\ ~sc_sort
    /\ Len(MatchedRows) = 2 /\ Len(PrintedRows) = 2
    /\ MatchedRows[1].size = MatchedRows[2].size
    /\ MatchedRows[1].addr = MatchedRows[2].addr
    /\ sc_stdout[Len(sc_stdout)] = TotalRow(WrapAdd(MatchedRows[1].size, MatchedRows[2].size))

=============================================================================
